---- MODULE Spec2Model ----
(***************************************************************************)
(* The quorum-commitment block processor (llmq/blockprocessor.cpp).        *)
(*                                                                         *)
(* A block hash is modelled by the block itself (height, parent, list of   *)
(* commitment transactions): an injective content hash.  The evo database  *)
(* is modelled by its three key namespaces and the best-block marker, each *)
(* a set of <<key, value>> pairs; the in-memory state is the existence     *)
(* cache and the two maps of the mineable pool.                            *)
(***************************************************************************)
EXTENDS Integers, Sequences, FiniteSets, TLC

VARIABLES
    chainTip,      \* block at the tip of the chain the processor has been driven along
    mc,            \* DB_MINED_COMMITMENT: <<type, quorumHash>> -> <<qc, minedBlockHash>>
    ih,            \* DB_MINED_COMMITMENT_BY_INVERSED_HEIGHT: <<type, key32>> -> quorumHeight
    ihi,           \* DB_MINED_COMMITMENT_BY_INVERSED_HEIGHT_Q_INDEXED: <<type, idx, key32>> -> quorumHeight
    bbu,           \* DB_BEST_BLOCK_UPGRADE: hash of the last processed block
    cache,         \* mapHasMinedCommitmentCache: <<type, quorumHash>> -> fExists
    byQuorum,      \* minableCommitmentsByQuorum: <<type, quorumHash>> -> commitmentHash
    minable,       \* minableCommitments: commitmentHash -> qc
    threads,       \* the calls in progress on other threads: thread -> position and locals
    lastQuery      \* the last query of the store or of the scheduler, with its answer

vars == <<chainTip, mc, ih, ihi, bbu, cache, byQuorum, minable, threads, lastQuery>>

-----------------------------------------------------------------------------
(* Bounds of the model *)

MaxHeight == 4        \* the chain is driven up to this height
MaxTxs == 2           \* commitment transactions per candidate block
MaxSigners == 2       \* signers of a commitment
FinalHeight == 2      \* blocks at or below this height are final: never disconnected
MaxMsgHeight == 6     \* the chain of the node that receives commitments is driven up to this height

-----------------------------------------------------------------------------
(* Consensus parameters: chainparams, outside this file *)

LLMQ_T1 == 1          \* a committee type that never rotates
LLMQ_T2 == 2          \* a committee type with rotation (useRotation)
LLMQ_UNKNOWN == 3     \* a type GetLLMQParams does not know
LLMQ_T3 == 4          \* a known type that is not enabled at any block of the model
DIP0003Height == 2
RotationHeight == 1   \* the rotation deployment is active for blocks at or above it
T1EnableHeight == 2   \* LLMQ_T1 is enabled as of blocks at or above it

KnownTypes == {LLMQ_T1, LLMQ_T2, LLMQ_T3}

GetLLMQParams(t) ==
    IF t = LLMQ_T1
    THEN [type |-> t, dkgInterval |-> 5, dkgMiningWindowStart |-> 2, dkgMiningWindowEnd |-> 3,
          signingActiveQuorumCount |-> 2, useRotation |-> FALSE]
    ELSE IF t = LLMQ_T2
    THEN [type |-> t, dkgInterval |-> 5, dkgMiningWindowStart |-> 3, dkgMiningWindowEnd |-> 4,
          signingActiveQuorumCount |-> 2, useRotation |-> TRUE]
    ELSE [type |-> t, dkgInterval |-> 5, dkgMiningWindowStart |-> 3, dkgMiningWindowEnd |-> 3,
          signingActiveQuorumCount |-> 1, useRotation |-> FALSE]

\* utils::IsQuorumRotationEnabled(params, pindex): a deployment-activation
\* predicate over the committee parameters and the reference block
IsQuorumRotationEnabled(params, pindex) ==
    params.useRotation /\ pindex.height >= RotationHeight

\* utils::GetEnabledQuorumParams(pindex), in the order of consensus.llmqs
GetEnabledQuorumParams(pindex) ==
    SelectSeq(<<LLMQ_T1, LLMQ_T2>>,
              LAMBDA t : t = LLMQ_T2 \/ pindex.height >= T1EnableHeight)

-----------------------------------------------------------------------------
(* Blocks and the chain *)

NullHash == [height |-> -1]                     \* uint256()
Genesis == [height |-> 0, prev |-> NullHash, txs |-> <<>>]

RECURSIVE GetAncestor(_, _)
GetAncestor(pindex, h) ==
    IF pindex = NullHash \/ h < 0 \/ h > pindex.height THEN NullHash
    ELSE IF pindex.height = h THEN pindex
    ELSE GetAncestor(pindex.prev, h)

\* ::ChainActive().Height(), with act the active tip (NullHash when there is none)
ActiveHeight(act) == act.height

\* GetBlockHash(hash, height): the hash at that height of the active chain, if any
GetBlockHash(act, h) == GetAncestor(act, h)

-----------------------------------------------------------------------------
(* The key-value store *)

DbWrite(m, k, v) == {p \in m : p[1] # k} \cup {<<k, v>>}
DbErase(m, k) == {p \in m : p[1] # k}
DbExists(m, k) == \E p \in m : p[1] = k
DbRead(m, k) == (CHOOSE p \in m : p[1] = k)[2]

\* htobe32 leaving the bytes in the order of a little-endian host
htobe32_LittleEndian(x) == <<x % 256, (x \div 256) % 256, (x \div 65536) % 256, (x \div 16777216) % 256>>

\* htobe32(x): the four bytes of a uint32, most significant first
htobe32(x) == <<(x \div 16777216) % 256, (x \div 65536) % 256, (x \div 256) % 256, x % 256>>

\* std::numeric_limits<uint32_t>::max() - nMinedHeight, as big-endian bytes:
\* subtracting from the all-ones word complements every byte
InversedHeight(nMinedHeight) ==
    LET b == htobe32(nMinedHeight) IN <<255 - b[1], 255 - b[2], 255 - b[3], 255 - b[4]>>

BuildInversedHeightKey(llmqType, nMinedHeight) ==
    <<llmqType, InversedHeight(nMinedHeight)>>

BuildInversedHeightKeyIndexed(llmqType, nMinedHeight, quorumIndex) ==
    <<llmqType, quorumIndex, InversedHeight(nMinedHeight)>>

\* ::SerializeHash(qc): a content hash
SerializeHash(qc) == <<"qfcommit", qc>>

\* The processor's persisted and in-memory state, as one record
Cur ==
    [mc |-> mc, ih |-> ih, ihi |-> ihi, bbu |-> bbu,
     cache |-> cache, byQuorum |-> byQuorum, minable |-> minable]

Store(s) == [mc |-> s.mc, ih |-> s.ih, ihi |-> s.ihi]

-----------------------------------------------------------------------------
(* CFinalCommitment: the collaborators of llmq/commitment.h seen as black boxes. *)
(* A commitment is [llmqType, quorumIndex, quorumHash, isNull, signers, verifies] *)

Commitment(t, i, h, n, c, v) ==
    [llmqType |-> t, quorumIndex |-> i, quorumHash |-> h, isNull |-> n, signers |-> c, verifies |-> v]

IsNull(qc) == qc.isNull
CountSigners(qc) == qc.signers
Verify(qc) == (~qc.isNull) /\ qc.verifies
VerifyNull(qc) == qc.isNull /\ qc.verifies

-----------------------------------------------------------------------------
(* CQuorumBlockProcessor: queries *)

Result(ok, reason, s) == [ok |-> ok, reason |-> reason, s |-> s]

\* HasMinedCommitment: the value returned (cache first, then the store) ...
HasMinedCommitment(s, llmqType, quorumHash) ==
    IF DbExists(s.cache, <<llmqType, quorumHash>>)
    THEN DbRead(s.cache, <<llmqType, quorumHash>>)
    ELSE DbExists(s.mc, <<llmqType, quorumHash>>)

\* ... and the state it leaves: a miss inserts what the store answered
HasMinedCommitmentFill(s, llmqType, quorumHash) ==
    IF DbExists(s.cache, <<llmqType, quorumHash>>) THEN s
    ELSE [s EXCEPT !.cache = DbWrite(@, <<llmqType, quorumHash>>,
                                     DbExists(s.mc, <<llmqType, quorumHash>>))]

\* the assertion of IsMiningPhase and GetNumCommitmentsRequired
HeightAssertion(act, nHeight) == nHeight <= ActiveHeight(act) + 1

\* IsMiningPhase with the last height of the window left out
IsMiningPhase_EndExclusive(llmqParams, nHeight) ==
    LET quorumCycleStartHeight == nHeight - (nHeight % llmqParams.dkgInterval)
        quorumCycleMiningStartHeight == quorumCycleStartHeight + llmqParams.dkgMiningWindowStart
        quorumCycleMiningEndHeight == quorumCycleStartHeight + llmqParams.dkgMiningWindowEnd
    IN  nHeight >= quorumCycleMiningStartHeight /\ nHeight < quorumCycleMiningEndHeight

IsMiningPhase(llmqParams, nHeight) ==
    LET quorumCycleStartHeight == nHeight - (nHeight % llmqParams.dkgInterval)
        quorumCycleMiningStartHeight == quorumCycleStartHeight + llmqParams.dkgMiningWindowStart
        quorumCycleMiningEndHeight == quorumCycleStartHeight + llmqParams.dkgMiningWindowEnd
    IN  nHeight >= quorumCycleMiningStartHeight /\ nHeight <= quorumCycleMiningEndHeight

GetQuorumBlockHash(act, llmqParams, nHeight, quorumIndex) ==
    LET quorumStartHeight == nHeight - (nHeight % llmqParams.dkgInterval) + quorumIndex
    IN  GetBlockHash(act, quorumStartHeight)

\* the number of sub-indexes GetNumCommitmentsRequired and GetMineableCommitments scan
QuorumsNum(act, llmqParams, nHeight) ==
    LET pindex == IF ActiveHeight(act) < nHeight THEN act ELSE GetAncestor(act, nHeight)
        rotation_enabled == IsQuorumRotationEnabled(llmqParams, pindex)
    IN  IF rotation_enabled THEN llmqParams.signingActiveQuorumCount ELSE 1

GetNumCommitmentsRequired(s, act, llmqParams, nHeight) ==
    IF ~IsMiningPhase(llmqParams, nHeight) THEN 0
    ELSE Cardinality({quorumIndex \in 0 .. QuorumsNum(act, llmqParams, nHeight) - 1 :
            LET quorumHash == GetQuorumBlockHash(act, llmqParams, nHeight, quorumIndex)
            IN  quorumHash # NullHash /\ ~HasMinedCommitment(s, llmqParams.type, quorumHash)})

\* the cache fills GetNumCommitmentsRequired leaves behind, sub-index by sub-index
RECURSIVE RequiredFill(_, _, _, _, _)
RequiredFill(s, act, llmqParams, nHeight, quorumIndex) ==
    IF quorumIndex >= QuorumsNum(act, llmqParams, nHeight) THEN s
    ELSE LET quorumHash == GetQuorumBlockHash(act, llmqParams, nHeight, quorumIndex)
             s1 == IF quorumHash # NullHash
                   THEN HasMinedCommitmentFill(s, llmqParams.type, quorumHash) ELSE s
         IN  RequiredFill(s1, act, llmqParams, nHeight, quorumIndex + 1)

GetNumCommitmentsRequiredFill(s, act, llmqParams, nHeight) ==
    IF ~IsMiningPhase(llmqParams, nHeight) THEN s
    ELSE RequiredFill(s, act, llmqParams, nHeight, 0)

-----------------------------------------------------------------------------
(* CQuorumBlockProcessor: the mineable pool *)

\* returns the state, whether the commitment is relayed, and whether
\* minableCommitments.at() threw
\* AddMineableCommitment replacing the known commitment on a tie as well
AddMineableCommitment_Ties(s, fqc) ==
    LET commitmentHash == SerializeHash(fqc)
        k == <<fqc.llmqType, fqc.quorumHash>>
    IN  IF ~DbExists(s.byQuorum, k)
        THEN [s |-> [s EXCEPT !.byQuorum = DbWrite(@, k, commitmentHash),
                              !.minable = IF DbExists(@, commitmentHash) THEN @
                                          ELSE DbWrite(@, commitmentHash, fqc)],
              relay |-> TRUE, threw |-> FALSE]
        ELSE IF ~DbExists(s.minable, DbRead(s.byQuorum, k))
        THEN [s |-> s, relay |-> FALSE, threw |-> TRUE]
        ELSE LET oldFqc == DbRead(s.minable, DbRead(s.byQuorum, k))
             IN  IF CountSigners(fqc) >= CountSigners(oldFqc)
                 THEN \* the slot entry is repointed first, so the erase that
                      \* follows removes the new hash, not the old one
                      [s |-> [s EXCEPT !.byQuorum = DbWrite(@, k, commitmentHash),
                                       !.minable = DbWrite(DbErase(@, commitmentHash),
                                                           commitmentHash, fqc)],
                       relay |-> TRUE, threw |-> FALSE]
                 ELSE [s |-> s, relay |-> FALSE, threw |-> FALSE]

AddMineableCommitment(s, fqc) ==
    LET commitmentHash == SerializeHash(fqc)
        k == <<fqc.llmqType, fqc.quorumHash>>
    IN  IF ~DbExists(s.byQuorum, k)
        THEN [s |-> [s EXCEPT !.byQuorum = DbWrite(@, k, commitmentHash),
                              !.minable = IF DbExists(@, commitmentHash) THEN @
                                          ELSE DbWrite(@, commitmentHash, fqc)],
              relay |-> TRUE, threw |-> FALSE]
        ELSE IF ~DbExists(s.minable, DbRead(s.byQuorum, k))
        THEN [s |-> s, relay |-> FALSE, threw |-> TRUE]
        ELSE LET oldFqc == DbRead(s.minable, DbRead(s.byQuorum, k))
             IN  IF CountSigners(fqc) > CountSigners(oldFqc)
                 THEN \* the slot entry is repointed first, so the erase that
                      \* follows removes the new hash, not the old one
                      [s |-> [s EXCEPT !.byQuorum = DbWrite(@, k, commitmentHash),
                                       !.minable = DbWrite(DbErase(@, commitmentHash),
                                                           commitmentHash, fqc)],
                       relay |-> TRUE, threw |-> FALSE]
                 ELSE [s |-> s, relay |-> FALSE, threw |-> FALSE]

HasMineableCommitment(s, hash) == DbExists(s.minable, hash)

\* found is false when the hash is not in minableCommitments
GetMineableCommitmentByHash(s, commitmentHash) ==
    IF DbExists(s.minable, commitmentHash)
    THEN [found |-> TRUE, ret |-> DbRead(s.minable, commitmentHash)]
    ELSE [found |-> FALSE, ret |-> NullHash]

\* ptr is NullHash when the store has no record of the slot
GetMinedCommitment(s, llmqType, quorumHash) ==
    IF ~DbExists(s.mc, <<llmqType, quorumHash>>)
    THEN [ptr |-> NullHash, retMinedBlockHash |-> NullHash]
    ELSE [ptr |-> DbRead(s.mc, <<llmqType, quorumHash>>)[1],
          retMinedBlockHash |-> DbRead(s.mc, <<llmqType, quorumHash>>)[2]]

\* the entry of the block index for a hash, NullHash when there is none
LookupBlockIndex(index, hash) == IF hash \in index THEN hash ELSE NullHash

\* The handler of a QFCOMMITMENT message. Besides the state it leaves, the
\* result tells the score passed to Misbehaving (0: not called), whether
\* qc.Verify was run, and whether AddMineableCommitment was called.

\* ProcessMessage without the penalty for a null commitment
ProcessMessage_NullUnpunished(s, act, index, qc) ==
    LET Out(s1, score, ver, add) == [s |-> s1, misbehaving |-> score, verified |-> ver, added |-> add]
    IN  IF IsNull(qc) THEN Out(s, 0, FALSE, FALSE)
        ELSE IF qc.llmqType \notin KnownTypes THEN Out(s, 100, FALSE, FALSE)
        ELSE
        LET llmq_params == GetLLMQParams(qc.llmqType)
            type == qc.llmqType
            pQuorumBaseBlockIndex == LookupBlockIndex(index, qc.quorumHash)
            quorumHeight == pQuorumBaseBlockIndex.height
                            - (pQuorumBaseBlockIndex.height % llmq_params.dkgInterval) + qc.quorumIndex
            s1 == HasMinedCommitmentFill(s, type, qc.quorumHash)
            k == <<type, qc.quorumHash>>
        IN  IF pQuorumBaseBlockIndex = NullHash THEN Out(s, 0, FALSE, FALSE)
            ELSE IF GetAncestor(act, pQuorumBaseBlockIndex.height) # pQuorumBaseBlockIndex
            THEN Out(s, 0, FALSE, FALSE)
            ELSE IF quorumHeight # pQuorumBaseBlockIndex.height THEN Out(s, 100, FALSE, FALSE)
            ELSE IF pQuorumBaseBlockIndex.height < ActiveHeight(act) - llmq_params.dkgInterval
            THEN Out(s, 0, FALSE, FALSE)
            ELSE IF HasMinedCommitment(s, type, qc.quorumHash) THEN Out(s1, 0, FALSE, FALSE)
            ELSE IF /\ DbExists(s1.byQuorum, k)
                    /\ DbExists(s1.minable, DbRead(s1.byQuorum, k))
                    /\ CountSigners(DbRead(s1.minable, DbRead(s1.byQuorum, k))) <= CountSigners(qc)
            THEN Out(s1, 0, FALSE, FALSE)
            ELSE IF ~Verify(qc) THEN Out(s1, 100, TRUE, FALSE)
            ELSE Out(AddMineableCommitment(s1, qc).s, 0, TRUE, TRUE)

\* ProcessMessage with the penalty for a committee block that is too old
ProcessMessage_OldPunished(s, act, index, qc) ==
    LET Out(s1, score, ver, add) == [s |-> s1, misbehaving |-> score, verified |-> ver, added |-> add]
    IN  IF IsNull(qc) THEN Out(s, 100, FALSE, FALSE)
        ELSE IF qc.llmqType \notin KnownTypes THEN Out(s, 100, FALSE, FALSE)
        ELSE
        LET llmq_params == GetLLMQParams(qc.llmqType)
            type == qc.llmqType
            pQuorumBaseBlockIndex == LookupBlockIndex(index, qc.quorumHash)
            quorumHeight == pQuorumBaseBlockIndex.height
                            - (pQuorumBaseBlockIndex.height % llmq_params.dkgInterval) + qc.quorumIndex
            s1 == HasMinedCommitmentFill(s, type, qc.quorumHash)
            k == <<type, qc.quorumHash>>
        IN  IF pQuorumBaseBlockIndex = NullHash THEN Out(s, 0, FALSE, FALSE)
            ELSE IF GetAncestor(act, pQuorumBaseBlockIndex.height) # pQuorumBaseBlockIndex
            THEN Out(s, 0, FALSE, FALSE)
            ELSE IF quorumHeight # pQuorumBaseBlockIndex.height THEN Out(s, 100, FALSE, FALSE)
            ELSE IF pQuorumBaseBlockIndex.height < ActiveHeight(act) - llmq_params.dkgInterval
            THEN Out(s, 100, FALSE, FALSE)
            ELSE IF HasMinedCommitment(s, type, qc.quorumHash) THEN Out(s1, 0, FALSE, FALSE)
            ELSE IF /\ DbExists(s1.byQuorum, k)
                    /\ DbExists(s1.minable, DbRead(s1.byQuorum, k))
                    /\ CountSigners(DbRead(s1.minable, DbRead(s1.byQuorum, k))) <= CountSigners(qc)
            THEN Out(s1, 0, FALSE, FALSE)
            ELSE IF ~Verify(qc) THEN Out(s1, 100, TRUE, FALSE)
            ELSE Out(AddMineableCommitment(s1, qc).s, 0, TRUE, TRUE)

ProcessMessage(s, act, index, qc) ==
    LET Out(s1, score, ver, add) == [s |-> s1, misbehaving |-> score, verified |-> ver, added |-> add]
    IN  IF IsNull(qc) THEN Out(s, 100, FALSE, FALSE)
        ELSE IF qc.llmqType \notin KnownTypes THEN Out(s, 100, FALSE, FALSE)
        ELSE
        LET llmq_params == GetLLMQParams(qc.llmqType)
            type == qc.llmqType
            pQuorumBaseBlockIndex == LookupBlockIndex(index, qc.quorumHash)
            quorumHeight == pQuorumBaseBlockIndex.height
                            - (pQuorumBaseBlockIndex.height % llmq_params.dkgInterval) + qc.quorumIndex
            s1 == HasMinedCommitmentFill(s, type, qc.quorumHash)
            k == <<type, qc.quorumHash>>
        IN  IF pQuorumBaseBlockIndex = NullHash THEN Out(s, 0, FALSE, FALSE)
            ELSE IF GetAncestor(act, pQuorumBaseBlockIndex.height) # pQuorumBaseBlockIndex
            THEN Out(s, 0, FALSE, FALSE)
            ELSE IF quorumHeight # pQuorumBaseBlockIndex.height THEN Out(s, 100, FALSE, FALSE)
            ELSE IF pQuorumBaseBlockIndex.height < ActiveHeight(act) - llmq_params.dkgInterval
            THEN Out(s, 0, FALSE, FALSE)
            ELSE IF HasMinedCommitment(s, type, qc.quorumHash) THEN Out(s1, 0, FALSE, FALSE)
            ELSE IF /\ DbExists(s1.byQuorum, k)
                    /\ DbExists(s1.minable, DbRead(s1.byQuorum, k))
                    /\ CountSigners(DbRead(s1.minable, DbRead(s1.byQuorum, k))) <= CountSigners(qc)
            THEN Out(s1, 0, FALSE, FALSE)
            ELSE IF ~Verify(qc) THEN Out(s1, 100, TRUE, FALSE)
            ELSE Out(AddMineableCommitment(s1, qc).s, 0, TRUE, TRUE)

\* the null commitment GetMineableCommitments creates for a slot
NullCommitment(llmqParams, quorumHash, quorumIndex) ==
    Commitment(llmqParams.type, quorumIndex, quorumHash, TRUE, 0, TRUE)

RECURSIVE MineableLoop(_, _, _, _, _, _)
\* the loop of GetMineableCommitments that also returns the slots already confirmed
MineableLoop_WithMined(s, act, llmqParams, nHeight, quorumIndex, ret) ==
    IF quorumIndex >= QuorumsNum(act, llmqParams, nHeight) THEN ret
    ELSE LET quorumHash == GetQuorumBlockHash(act, llmqParams, nHeight, quorumIndex)
             k == <<llmqParams.type, quorumHash>>
         IN  IF quorumHash = NullHash THEN ret
             ELSE IF ~DbExists(s.byQuorum, k)
             THEN MineableLoop(s, act, llmqParams, nHeight, quorumIndex + 1,
                      Append(ret, NullCommitment(llmqParams, quorumHash, quorumIndex)))
             ELSE MineableLoop(s, act, llmqParams, nHeight, quorumIndex + 1,
                      Append(ret, DbRead(s.minable, DbRead(s.byQuorum, k))))

\* the loop of GetMineableCommitments over the sub-indexes
MineableLoop(s, act, llmqParams, nHeight, quorumIndex, ret) ==
    IF quorumIndex >= QuorumsNum(act, llmqParams, nHeight) THEN ret
    ELSE LET quorumHash == GetQuorumBlockHash(act, llmqParams, nHeight, quorumIndex)
             k == <<llmqParams.type, quorumHash>>
         IN  IF quorumHash = NullHash THEN ret
             ELSE IF HasMinedCommitment(s, llmqParams.type, quorumHash)
             THEN MineableLoop(s, act, llmqParams, nHeight, quorumIndex + 1, ret)
             ELSE IF ~DbExists(s.byQuorum, k)
             THEN MineableLoop(s, act, llmqParams, nHeight, quorumIndex + 1,
                      Append(ret, NullCommitment(llmqParams, quorumHash, quorumIndex)))
             ELSE MineableLoop(s, act, llmqParams, nHeight, quorumIndex + 1,
                      Append(ret, DbRead(s.minable, DbRead(s.byQuorum, k))))

\* has is false for std::nullopt
GetMineableCommitments(s, act, llmqParams, nHeight) ==
    IF GetNumCommitmentsRequired(s, act, llmqParams, nHeight) = 0
    THEN [has |-> FALSE, ret |-> <<>>]
    ELSE LET ret == MineableLoop(s, act, llmqParams, nHeight, 0, <<>>)
         IN  [has |-> ret # <<>>, ret |-> ret]

\* has is the value returned, ret the transactions appended
GetMineableCommitmentsTx(s, act, llmqParams, nHeight) ==
    LET qcs == GetMineableCommitments(s, act, llmqParams, nHeight)
    IN  IF ~qcs.has THEN [has |-> FALSE, ret |-> <<>>]
        ELSE [has |-> TRUE, ret |-> [i \in 1 .. Len(qcs.ret) |-> [payloadOk |-> TRUE, commitment |-> qcs.ret[i]]]]

-----------------------------------------------------------------------------
(* CQuorumBlockProcessor: block processing.                                *)
(* A transaction is [payloadOk, commitment]; pindex is the block itself.   *)

\* std::multimap<LLMQType, CFinalCommitment>: ordered by type, and by
\* insertion among the commitments of one type
MultimapEmplace(ret, qc) ==
    LET n == Cardinality({i \in 1 .. Len(ret) : ret[i].llmqType <= qc.llmqType})
    IN  SubSeq(ret, 1, n) \o <<qc>> \o SubSeq(ret, n + 1, Len(ret))

MultimapCount(ret, llmqType) ==
    Cardinality({i \in 1 .. Len(ret) : ret[i].llmqType = llmqType})

RECURSIVE ScanTxs(_, _, _)
\* ScanTxs without the check for a second commitment of one type
ScanTxs_NoDupCheck(block, i, ret) ==
    IF i > Len(block.txs)
    THEN IF block.height < DIP0003Height /\ ret # <<>>
         THEN [ok |-> FALSE, reason |-> "bad-qc-premature", qcs |-> ret]
         ELSE [ok |-> TRUE, reason |-> "", qcs |-> ret]
    ELSE LET tx == block.txs[i]
             qc == tx.commitment
         IN  IF ~tx.payloadOk
             THEN [ok |-> FALSE, reason |-> "bad-qc-payload", qcs |-> ret]
             ELSE IF qc.llmqType \notin KnownTypes
             THEN [ok |-> FALSE, reason |-> "bad-qc-commitment-type", qcs |-> ret]
             ELSE ScanTxs(block, i + 1, MultimapEmplace(ret, qc))

ScanTxs(block, i, ret) ==
    IF i > Len(block.txs)
    THEN IF block.height < DIP0003Height /\ ret # <<>>
         THEN [ok |-> FALSE, reason |-> "bad-qc-premature", qcs |-> ret]
         ELSE [ok |-> TRUE, reason |-> "", qcs |-> ret]
    ELSE LET tx == block.txs[i]
             qc == tx.commitment
         IN  IF ~tx.payloadOk
             THEN [ok |-> FALSE, reason |-> "bad-qc-payload", qcs |-> ret]
             ELSE IF qc.llmqType \notin KnownTypes
             THEN [ok |-> FALSE, reason |-> "bad-qc-commitment-type", qcs |-> ret]
             ELSE IF ~IsQuorumRotationEnabled(GetLLMQParams(qc.llmqType), block)
                     /\ MultimapCount(ret, qc.llmqType) # 0
             THEN [ok |-> FALSE, reason |-> "bad-qc-dup", qcs |-> ret]
             ELSE ScanTxs(block, i + 1, MultimapEmplace(ret, qc))

GetCommitmentsFromBlock(block) == ScanTxs(block, 1, <<>>)

\* ProcessCommitment without the comparison of the commitment's committee block hash
ProcessCommitment_NoBlockCheck(s, act, nHeight, blockHash, qc, fJustCheck) ==
    IF qc.llmqType \notin KnownTypes THEN Result(FALSE, "", s)
    ELSE
    LET llmq_params == GetLLMQParams(qc.llmqType)
        \* the bad-qc-block checks are skipped when replaying blocks after the crash
        quorumHash == IF act = NullHash THEN qc.quorumHash
                      ELSE GetQuorumBlockHash(act, llmq_params, nHeight, qc.quorumIndex)
        s1 == HasMinedCommitmentFill(s, llmq_params.type, quorumHash)
        pQuorumBaseBlockIndex == qc.quorumHash
        rotation_enabled == IsQuorumRotationEnabled(llmq_params, pQuorumBaseBlockIndex)
        cacheKey == <<llmq_params.type, quorumHash>>
    IN  IF quorumHash = NullHash THEN Result(FALSE, "bad-qc-block", s)
        ELSE IF IsNull(qc)
        THEN IF ~VerifyNull(qc) THEN Result(FALSE, "bad-qc-invalid-null", s)
             ELSE Result(TRUE, "", s)
        ELSE IF HasMinedCommitment(s, llmq_params.type, quorumHash)
        THEN Result(FALSE, "bad-qc-dup", s1)
        ELSE IF ~HeightAssertion(act, nHeight) THEN Result(FALSE, "assert", s1)
        ELSE IF ~IsMiningPhase(llmq_params, nHeight) THEN Result(FALSE, "bad-qc-height", s1)
        ELSE IF ~Verify(qc) THEN Result(FALSE, "bad-qc-invalid", s1)
        ELSE IF fJustCheck THEN Result(TRUE, "", s1)
        ELSE Result(TRUE, "",
               [s1 EXCEPT
                  !.mc = DbWrite(@, cacheKey, <<qc, blockHash>>),
                  !.ihi = IF rotation_enabled
                          THEN DbWrite(@, BuildInversedHeightKeyIndexed(llmq_params.type, nHeight, qc.quorumIndex),
                                       pQuorumBaseBlockIndex.height)
                          ELSE @,
                  !.ih = IF rotation_enabled THEN @
                         ELSE DbWrite(@, BuildInversedHeightKey(llmq_params.type, nHeight),
                                      pQuorumBaseBlockIndex.height),
                  !.cache = DbErase(@, <<qc.llmqType, qc.quorumHash>>),
                  !.byQuorum = DbErase(@, cacheKey),
                  !.minable = DbErase(@, SerializeHash(qc))])

\* ProcessCommitment without the check that the slot has no confirmed commitment
ProcessCommitment_NoDupCheck(s, act, nHeight, blockHash, qc, fJustCheck) ==
    IF qc.llmqType \notin KnownTypes THEN Result(FALSE, "", s)
    ELSE
    LET llmq_params == GetLLMQParams(qc.llmqType)
        \* the bad-qc-block checks are skipped when replaying blocks after the crash
        quorumHash == IF act = NullHash THEN qc.quorumHash
                      ELSE GetQuorumBlockHash(act, llmq_params, nHeight, qc.quorumIndex)
        s1 == HasMinedCommitmentFill(s, llmq_params.type, quorumHash)
        pQuorumBaseBlockIndex == qc.quorumHash
        rotation_enabled == IsQuorumRotationEnabled(llmq_params, pQuorumBaseBlockIndex)
        cacheKey == <<llmq_params.type, quorumHash>>
    IN  IF quorumHash = NullHash THEN Result(FALSE, "bad-qc-block", s)
        ELSE IF quorumHash # qc.quorumHash THEN Result(FALSE, "bad-qc-block", s)
        ELSE IF IsNull(qc)
        THEN IF ~VerifyNull(qc) THEN Result(FALSE, "bad-qc-invalid-null", s)
             ELSE Result(TRUE, "", s)
        ELSE IF ~HeightAssertion(act, nHeight) THEN Result(FALSE, "assert", s1)
        ELSE IF ~IsMiningPhase(llmq_params, nHeight) THEN Result(FALSE, "bad-qc-height", s1)
        ELSE IF ~Verify(qc) THEN Result(FALSE, "bad-qc-invalid", s1)
        ELSE IF fJustCheck THEN Result(TRUE, "", s1)
        ELSE Result(TRUE, "",
               [s1 EXCEPT
                  !.mc = DbWrite(@, cacheKey, <<qc, blockHash>>),
                  !.ihi = IF rotation_enabled
                          THEN DbWrite(@, BuildInversedHeightKeyIndexed(llmq_params.type, nHeight, qc.quorumIndex),
                                       pQuorumBaseBlockIndex.height)
                          ELSE @,
                  !.ih = IF rotation_enabled THEN @
                         ELSE DbWrite(@, BuildInversedHeightKey(llmq_params.type, nHeight),
                                      pQuorumBaseBlockIndex.height),
                  !.cache = DbErase(@, <<qc.llmqType, qc.quorumHash>>),
                  !.byQuorum = DbErase(@, cacheKey),
                  !.minable = DbErase(@, SerializeHash(qc))])

ProcessCommitment(s, act, nHeight, blockHash, qc, fJustCheck) ==
    IF qc.llmqType \notin KnownTypes THEN Result(FALSE, "", s)
    ELSE
    LET llmq_params == GetLLMQParams(qc.llmqType)
        \* the bad-qc-block checks are skipped when replaying blocks after the crash
        quorumHash == IF act = NullHash THEN qc.quorumHash
                      ELSE GetQuorumBlockHash(act, llmq_params, nHeight, qc.quorumIndex)
        s1 == HasMinedCommitmentFill(s, llmq_params.type, quorumHash)
        pQuorumBaseBlockIndex == qc.quorumHash
        rotation_enabled == IsQuorumRotationEnabled(llmq_params, pQuorumBaseBlockIndex)
        cacheKey == <<llmq_params.type, quorumHash>>
    IN  IF quorumHash = NullHash THEN Result(FALSE, "bad-qc-block", s)
        ELSE IF quorumHash # qc.quorumHash THEN Result(FALSE, "bad-qc-block", s)
        ELSE IF IsNull(qc)
        THEN IF ~VerifyNull(qc) THEN Result(FALSE, "bad-qc-invalid-null", s)
             ELSE Result(TRUE, "", s)
        ELSE IF HasMinedCommitment(s, llmq_params.type, quorumHash)
        THEN Result(FALSE, "bad-qc-dup", s1)
        ELSE IF ~HeightAssertion(act, nHeight) THEN Result(FALSE, "assert", s1)
        ELSE IF ~IsMiningPhase(llmq_params, nHeight) THEN Result(FALSE, "bad-qc-height", s1)
        ELSE IF ~Verify(qc) THEN Result(FALSE, "bad-qc-invalid", s1)
        ELSE IF fJustCheck THEN Result(TRUE, "", s1)
        ELSE Result(TRUE, "",
               [s1 EXCEPT
                  !.mc = DbWrite(@, cacheKey, <<qc, blockHash>>),
                  !.ihi = IF rotation_enabled
                          THEN DbWrite(@, BuildInversedHeightKeyIndexed(llmq_params.type, nHeight, qc.quorumIndex),
                                       pQuorumBaseBlockIndex.height)
                          ELSE @,
                  !.ih = IF rotation_enabled THEN @
                         ELSE DbWrite(@, BuildInversedHeightKey(llmq_params.type, nHeight),
                                      pQuorumBaseBlockIndex.height),
                  !.cache = DbErase(@, <<qc.llmqType, qc.quorumHash>>),
                  !.byQuorum = DbErase(@, cacheKey),
                  !.minable = DbErase(@, SerializeHash(qc))])

\* the loop of ProcessBlock over the enabled committee types
RECURSIVE CheckCounts(_, _, _, _, _, _)
\* CheckCounts without the rejection of a block with too few commitments
CheckCounts_NoMissing(s, act, block, qcs, enabled, i) ==
    IF i > Len(enabled) THEN Result(TRUE, "", s)
    \* skip these checks when replaying blocks after the crash
    ELSE IF act = NullHash THEN Result(TRUE, "", s)
    ELSE LET params == GetLLMQParams(enabled[i])
             numCommitmentsRequired == GetNumCommitmentsRequired(s, act, params, block.height)
             s1 == GetNumCommitmentsRequiredFill(s, act, params, block.height)
             numCommitmentsInNewBlock == MultimapCount(qcs, params.type)
         IN  IF numCommitmentsRequired < numCommitmentsInNewBlock
             THEN Result(FALSE, "bad-qc-not-allowed", s1)
             ELSE CheckCounts(s1, act, block, qcs, enabled, i + 1)

CheckCounts(s, act, block, qcs, enabled, i) ==
    IF i > Len(enabled) THEN Result(TRUE, "", s)
    \* skip these checks when replaying blocks after the crash
    ELSE IF act = NullHash THEN Result(TRUE, "", s)
    ELSE LET params == GetLLMQParams(enabled[i])
             numCommitmentsRequired == GetNumCommitmentsRequired(s, act, params, block.height)
             s1 == GetNumCommitmentsRequiredFill(s, act, params, block.height)
             numCommitmentsInNewBlock == MultimapCount(qcs, params.type)
         IN  IF numCommitmentsRequired < numCommitmentsInNewBlock
             THEN Result(FALSE, "bad-qc-not-allowed", s1)
             ELSE IF numCommitmentsRequired > numCommitmentsInNewBlock
             THEN Result(FALSE, "bad-qc-missing", s1)
             ELSE CheckCounts(s1, act, block, qcs, enabled, i + 1)

\* the loop of ProcessBlock over the commitments of the block
RECURSIVE ProcessCommitments(_, _, _, _, _, _)
ProcessCommitments(s, act, block, qcs, i, fJustCheck) ==
    IF i > Len(qcs) THEN Result(TRUE, "", s)
    ELSE LET r == ProcessCommitment(s, act, block.height, block, qcs[i], fJustCheck)
         IN  IF ~r.ok THEN r
             ELSE ProcessCommitments(r.s, act, block, qcs, i + 1, fJustCheck)

\* act is ::ChainActive().Tip(): the parent of the block, or NullHash in a replay
ProcessBlock(s, act, block, fJustCheck) ==
    LET fDIP0003Active == block.height >= DIP0003Height
        got == GetCommitmentsFromBlock(block)
        counted == CheckCounts(s, act, block, got.qcs, GetEnabledQuorumParams(block.prev), 1)
        done == ProcessCommitments(counted.s, act, block, got.qcs, 1, fJustCheck)
    IN  IF ~fDIP0003Active THEN Result(TRUE, "", [s EXCEPT !.bbu = block])
        ELSE IF ~got.ok THEN Result(FALSE, got.reason, s)
        ELSE IF ~counted.ok THEN counted
        ELSE IF ~done.ok THEN done
        ELSE Result(TRUE, "", [done.s EXCEPT !.bbu = block])

\* the loop of UndoBlock over the commitments of the block
RECURSIVE UndoCommitments(_, _, _, _)
UndoCommitments(s, block, qcs, i) ==
    IF i > Len(qcs) THEN Result(TRUE, "", s)
    ELSE LET qc == qcs[i]
             rotation_enabled == IsQuorumRotationEnabled(GetLLMQParams(qc.llmqType), block)
             s1 == [s EXCEPT
                      !.mc = DbErase(@, <<qc.llmqType, qc.quorumHash>>),
                      !.ihi = IF rotation_enabled
                              THEN DbErase(@, BuildInversedHeightKeyIndexed(qc.llmqType, block.height, qc.quorumIndex))
                              ELSE @,
                      !.ih = IF rotation_enabled THEN @
                             ELSE DbErase(@, BuildInversedHeightKey(qc.llmqType, block.height)),
                      !.cache = DbErase(@, <<qc.llmqType, qc.quorumHash>>)]
             added == AddMineableCommitment(s1, qc)
         IN  IF IsNull(qc) THEN UndoCommitments(s, block, qcs, i + 1)
             ELSE IF added.threw THEN Result(FALSE, "out_of_range", s1)
             ELSE UndoCommitments(added.s, block, qcs, i + 1)

UndoBlock(s, block) ==
    LET got == GetCommitmentsFromBlock(block)
        undone == UndoCommitments(s, block, got.qcs, 1)
    IN  IF ~got.ok THEN Result(FALSE, got.reason, s)
        ELSE IF ~undone.ok THEN undone
        ELSE Result(TRUE, "", [undone.s EXCEPT !.bbu = block.prev])

-----------------------------------------------------------------------------
(* The blocks offered to the processor *)

Tx(qc) == [payloadOk |-> TRUE, commitment |-> qc]

\* the commitment of sub-index i of type t in the cycle of the block on top of
\* prev, with c signers: a null commitment when c = 0
SlotCommitment(prev, t, i, c) ==
    Commitment(t, i, GetQuorumBlockHash(prev, GetLLMQParams(t), prev.height + 1, i),
               c = 0, c, TRUE)

\* The commitment transactions of the slots of the cycle, in the order a
\* block lists them (the rotating type first): for every slot a null and a
\* non-null commitment, and a commitment naming another block than the
\* committee block of its slot
SlotTxs(prev) ==
    <<Tx(SlotCommitment(prev, LLMQ_T2, 0, 0)),
      Tx(SlotCommitment(prev, LLMQ_T2, 0, 1)),
      Tx(SlotCommitment(prev, LLMQ_T2, 1, 0)),
      Tx(SlotCommitment(prev, LLMQ_T2, 1, 1)),
      Tx([SlotCommitment(prev, LLMQ_T2, 1, 0) EXCEPT !.quorumHash = Genesis]),
      Tx(SlotCommitment(prev, LLMQ_T1, 0, 0)),
      Tx(SlotCommitment(prev, LLMQ_T1, 0, 1))>>

\* The transactions a block on top of prev may carry: below the activation
\* height only the first
BlockTxs(prev) ==
    IF prev.height + 1 < DIP0003Height THEN SubSeq(SlotTxs(prev), 1, 1) ELSE SlotTxs(prev)

\* Transaction lists offered as they are: lists that fail on a transaction of
\* their own (an undecodable payload, an unknown committee type, a null
\* commitment failing its null proof, a non-null one failing its
\* verification), and two different non-null commitments of one slot
SpecialTxs(prev) ==
    IF prev.height + 1 < DIP0003Height THEN {}
    ELSE {<<[payloadOk |-> FALSE, commitment |-> SlotCommitment(prev, LLMQ_T1, 0, 0)]>>,
          <<Tx([SlotCommitment(prev, LLMQ_T1, 0, 0) EXCEPT !.llmqType = LLMQ_UNKNOWN])>>,
          <<Tx([SlotCommitment(prev, LLMQ_T1, 0, 0) EXCEPT !.verifies = FALSE])>>,
          <<Tx([SlotCommitment(prev, LLMQ_T1, 0, 1) EXCEPT !.verifies = FALSE])>>,
          <<Tx(SlotCommitment(prev, LLMQ_T2, 0, 1)),
            Tx(SlotCommitment(prev, LLMQ_T2, 0, MaxSigners))>>}

\* the strictly increasing index lists of length at most n into a list of length len
RECURSIVE Picks(_, _, _)
Picks(from, len, n) ==
    IF n = 0 \/ from > len THEN {<<>>}
    ELSE Picks(from + 1, len, n) \cup {<<from>> \o p : p \in Picks(from + 1, len, n - 1)}

Block(prev, txs) == [height |-> prev.height + 1, prev |-> prev, txs |-> txs]

\* a block carries distinct transactions (a repeated transaction is a
\* duplicate the block checks reject before the processor is called)
Blocks(prev) ==
    LET all == BlockTxs(prev)
    IN  {Block(prev, [k \in 1 .. Len(p) |-> all[p[k]]]) : p \in Picks(1, Len(all), MaxTxs)}
        \cup {Block(prev, txs) : txs \in SpecialTxs(prev)}

-----------------------------------------------------------------------------
(* The state machine *)

\* no query was made yet
NoQuery == [op |-> "none"]

Init ==
    /\ chainTip = Genesis
    /\ mc = {} /\ ih = {} /\ ihi = {} /\ bbu = NullHash
    /\ cache = {} /\ byQuorum = {} /\ minable = {}
    /\ threads = <<>> /\ lastQuery = NoQuery

\* the state a call made on the chain-processing path leaves; the calls in
\* progress elsewhere and the last answer are not touched
Install(s) ==
    /\ mc' = s.mc /\ ih' = s.ih /\ ihi' = s.ihi /\ bbu' = s.bbu
    /\ cache' = s.cache /\ byQuorum' = s.byQuorum /\ minable' = s.minable
    /\ UNCHANGED <<threads, lastQuery>>

\* the state after a restart: the in-memory state is lost
Restarted(s) == [s EXCEPT !.cache = {}, !.byQuorum = {}, !.minable = {}]

\* The caller runs every call inside a transaction of the evo database and
\* discards it when the call fails or only checks: the persisted state is then
\* the one before the call (s0), the in-memory state the one the call left (s1)
Rollback(s0, s1) == [s1 EXCEPT !.mc = s0.mc, !.ih = s0.ih, !.ihi = s0.ihi, !.bbu = s0.bbu]

\* ConnectBlock calls ProcessBlock for a block on top of the active tip
ConnectBlock(block) ==
    /\ block.height <= MaxHeight
    /\ LET r == ProcessBlock(Cur, chainTip, block, FALSE)
       IN  /\ Install(IF r.ok THEN r.s ELSE Rollback(Cur, r.s))
           /\ chainTip' = IF r.ok THEN block ELSE chainTip

\* TestBlockValidity calls ProcessBlock with fJustCheck for a block on top of the active tip
TestBlockValidity(block) ==
    /\ block.height <= MaxHeight
    /\ LET r == ProcessBlock(Cur, chainTip, block, TRUE)
       IN  Install(Rollback(Cur, r.s))
    /\ UNCHANGED chainTip

\* After a crash the node restarts and rolls forward, while the active chain
\* has no tip yet, a block that was valid on top of the persisted state; a
\* failed roll-forward ends the process again
ReplayBlock(block) ==
    /\ block.height <= MaxHeight
    /\ ProcessBlock(Restarted(Cur), chainTip, block, TRUE).ok
    /\ LET r == ProcessBlock(Restarted(Cur), NullHash, block, FALSE)
       IN  /\ Install(IF r.ok THEN r.s ELSE Restarted(Cur))
           /\ chainTip' = IF r.ok THEN block ELSE chainTip

\* DisconnectBlock calls UndoBlock for the block at the tip, unless it is final
DisconnectBlock ==
    /\ chainTip.height > FinalHeight
    /\ LET r == UndoBlock(Cur, chainTip)
       IN  /\ Install(IF r.ok THEN r.s ELSE Rollback(Cur, r.s))
           /\ chainTip' = IF r.ok THEN chainTip.prev ELSE chainTip

Next ==
    \/ \E block \in Blocks(chainTip) : ConnectBlock(block)
    \/ \E block \in Blocks(chainTip) : TestBlockValidity(block)
    \/ \E block \in Blocks(chainTip) : ReplayBlock(block)
    \/ DisconnectBlock

Spec == Init /\ [][Next]_vars

-----------------------------------------------------------------------------
(* The node on the network: it receives commitments from peers, finalizes  *)
(* commitments of its own DKG sessions, mines blocks from the pool and     *)
(* connects blocks of peers.                                               *)

\* a block that was received but is not on the active chain, and a block
\* the node has never seen
SideBlock == Block(Genesis, <<Tx(NullCommitment(GetLLMQParams(LLMQ_T2), Genesis, 0))>>)
UnknownBlock == Block(SideBlock, <<>>)

RECURSIVE Ancestors(_)
Ancestors(pindex) == IF pindex = NullHash THEN {} ELSE {pindex} \cup Ancestors(pindex.prev)

\* the block index: the blocks of the active chain and the side block
BlockIndex(act) == Ancestors(act) \cup {SideBlock}

\* the commitments peers send: of the rotating type and of an unknown type,
\* for both sub-indexes, naming the first two blocks of the active chain, the
\* side block or the unknown block; null when c = 0, else with one signer
\* or with all of them
Messages(act) ==
    {Commitment(t, i, h, c = 0, c, v) :
        t \in {LLMQ_T2, LLMQ_UNKNOWN}, i \in 0 .. 1,
        h \in {Genesis, GetAncestor(act, 1), SideBlock, UnknownBlock},
        c \in {0, 1, MaxSigners}, v \in BOOLEAN}

\* the final commitments the DKG sessions of the node produce for the slots of the cycle
LocalCommitments(act) ==
    {Commitment(LLMQ_T2, i, GetAncestor(act, i), FALSE, c, TRUE) :
        i \in {j \in 0 .. 1 : GetAncestor(act, j) # NullHash}, c \in {1, MaxSigners}}

ReceiveMessage(qc) ==
    /\ Install(ProcessMessage(Cur, chainTip, BlockIndex(chainTip), qc).s)
    /\ UNCHANGED chainTip

FinalizeCommitment(fqc) ==
    /\ Install(AddMineableCommitment(Cur, fqc).s)
    /\ UNCHANGED chainTip

\* the commitment transactions the miner puts in a block on top of act: what
\* GetMineableCommitmentsTx gives for every enabled type
RECURSIVE CreateNewBlockTxs(_, _, _, _)
CreateNewBlockTxs(s, act, enabled, i) ==
    IF i > Len(enabled) THEN <<>>
    ELSE GetMineableCommitmentsTx(s, act, GetLLMQParams(enabled[i]), act.height + 1).ret
         \o CreateNewBlockTxs(s, act, enabled, i + 1)

NewBlock(s, act) ==
    Block(act, IF act.height + 1 < DIP0003Height THEN <<>>
               ELSE CreateNewBlockTxs(s, act, GetEnabledQuorumParams(act), 1))

\* the block of a peer whose pool holds, for every slot, the commitment with
\* c signers (none when c = 0)
PeerBlock(s, act, c) ==
    LET own == NewBlock([s EXCEPT !.byQuorum = {}], act)
    IN  Block(act, [k \in 1 .. Len(own.txs) |->
            IF c = 0 \/ own.txs[k].commitment.llmqType # LLMQ_T2 THEN own.txs[k]
            ELSE Tx([own.txs[k].commitment EXCEPT !.isNull = FALSE, !.signers = c])])

\* the node creates a block from its pool and connects it on top of the tip
MineBlock ==
    /\ chainTip.height < MaxMsgHeight
    /\ LET block == NewBlock(Cur, chainTip)
           r == ProcessBlock(Cur, chainTip, block, FALSE)
       IN  /\ Install(IF r.ok THEN r.s ELSE Rollback(Cur, r.s))
           /\ chainTip' = IF r.ok THEN block ELSE chainTip

\* ConnectBlock for the block of a peer
ConnectPeerBlock(c) ==
    /\ chainTip.height < MaxMsgHeight
    /\ LET block == PeerBlock(Cur, chainTip, c)
           r == ProcessBlock(Cur, chainTip, block, FALSE)
       IN  /\ Install(IF r.ok THEN r.s ELSE Rollback(Cur, r.s))
           /\ chainTip' = IF r.ok THEN block ELSE chainTip

\* DisconnectBlock for a tip in the first mining window: the blocks above it
\* carry no commitment, reorganizations of them are not explored
DisconnectMsgBlock ==
    /\ chainTip.height > FinalHeight /\ chainTip.height <= MaxHeight
    /\ LET r == UndoBlock(Cur, chainTip)
       IN  /\ Install(IF r.ok THEN r.s ELSE Rollback(Cur, r.s))
           /\ chainTip' = IF r.ok THEN chainTip.prev ELSE chainTip

NextMsg ==
    \/ \E qc \in Messages(chainTip) : ReceiveMessage(qc)
    \/ \E fqc \in LocalCommitments(chainTip) : FinalizeCommitment(fqc)
    \/ MineBlock
    \/ \E c \in {0, 1, MaxSigners} : ConnectPeerBlock(c)
    \/ DisconnectMsgBlock

SpecMsg == Init /\ [][NextMsg]_vars

-----------------------------------------------------------------------------
(* Properties of ProcessBlock and UndoBlock.  They are stated over every *)
(* block that can be offered on top of the tip in a reachable state.      *)

\* the well-formed commitments a block carries, in block order
BlockCommitments(block) ==
    LET ok == SelectSeq(block.txs, LAMBDA tx : tx.payloadOk /\ tx.commitment.llmqType \in KnownTypes)
    IN  [i \in 1 .. Len(ok) |-> ok[i].commitment]

CountInBlock(block, llmqType) ==
    Cardinality({i \in 1 .. Len(BlockCommitments(block)) : BlockCommitments(block)[i].llmqType = llmqType})

\* the state a call of ProcessBlock starts from: after a crash the in-memory state is lost
CallState(act) == IF act = NullHash THEN Restarted(Cur) ELSE Cur

Activated(block) == block.height >= DIP0003Height

\* C1 as stated: an accepted block at or above the activation height has, for
\* every committee type enabled as of the previous block, exactly
\* GetNumCommitmentsRequired commitments of the type; a block with fewer is
\* rejected with bad-qc-missing, one with more with bad-qc-not-allowed
C1_Original ==
    \A block \in Blocks(chainTip) : \A act \in {chainTip, NullHash} :
        Activated(block) =>
            LET r == ProcessBlock(CallState(act), act, block, FALSE)
                enabled == GetEnabledQuorumParams(block.prev)
            IN  \A i \in 1 .. Len(enabled) :
                    LET n == CountInBlock(block, enabled[i])
                        req == GetNumCommitmentsRequired(CallState(act), chainTip,
                                                         GetLLMQParams(enabled[i]), block.height)
                    IN  /\ r.ok => n = req
                        /\ n < req => ~r.ok /\ r.reason = "bad-qc-missing"
                        /\ n > req => ~r.ok /\ r.reason = "bad-qc-not-allowed"

\* C1 as amended: while the active chain has a tip, an accepted block at or
\* above the activation height has exactly the required number of commitments
\* of every enabled type; a block that passes the extraction is rejected with
\* the reason of the first enabled type, in parameter order, whose number
\* differs: bad-qc-missing when it has fewer, bad-qc-not-allowed when more
C1_Counts ==
    \A block \in Blocks(chainTip) :
        Activated(block) =>
            LET r == ProcessBlock(Cur, chainTip, block, FALSE)
                enabled == GetEnabledQuorumParams(block.prev)
                n(i) == CountInBlock(block, enabled[i])
                req(i) == GetNumCommitmentsRequired(Cur, chainTip, GetLLMQParams(enabled[i]), block.height)
                differ == {i \in 1 .. Len(enabled) : n(i) # req(i)}
                first == CHOOSE i \in differ : \A j \in differ : i <= j
            IN  /\ r.ok => differ = {}
                /\ GetCommitmentsFromBlock(block).ok /\ differ # {} =>
                       /\ ~r.ok
                       /\ r.reason = IF n(first) < req(first) THEN "bad-qc-missing"
                                     ELSE "bad-qc-not-allowed"

\* a connected block with two commitments of the rotating type, on which one
\* block is rejected for a missing and another for a commitment not allowed
C1_Witness ==
    /\ Activated(chainTip)
    /\ CountInBlock(chainTip, LLMQ_T2) = 2
    /\ chainTip.height < MaxHeight
    /\ \E b1, b2 \in Blocks(chainTip) :
           /\ ProcessBlock(Cur, chainTip, b1, FALSE).reason = "bad-qc-missing"
           /\ ProcessBlock(Cur, chainTip, b2, FALSE).reason = "bad-qc-not-allowed"

OneRecordPerSlot == \A p, q \in mc : p[1] = q[1] => p = q

RecordChangesOnlyByUndo ==
    \A p \in mc :
        p \notin mc' =>
            /\ ~DbExists(mc', p[1])
            /\ chainTip # Genesis /\ chainTip' = chainTip.prev
            /\ p[2][2] = chainTip

\* C2: a slot has at most one confirmed record, and a record changes only by
\* being erased when the block that confirmed it is undone
C2_Permanent == []OneRecordPerSlot /\ [][RecordChangesOnlyByUndo]_vars

\* after an undo has erased a record (its commitment went back to the pool),
\* the record another block confirmed is still there
C2_Witness ==
    /\ minable # {}
    /\ \E p \in mc : p[2][2] # chainTip /\ ~DbExists(minable, SerializeHash(p[2][1]))

\* C3: an accepted block in the mining phase of an enabled type carries, for
\* every sub-index slot that is resolvable and not yet confirmed, exactly one
\* commitment for that slot
C3_EverySlot ==
    \A block \in Blocks(chainTip) :
        Activated(block) /\ ProcessBlock(Cur, chainTip, block, FALSE).ok =>
            LET enabled == GetEnabledQuorumParams(block.prev)
                qcs == BlockCommitments(block)
            IN  \A i \in 1 .. Len(enabled) :
                    LET params == GetLLMQParams(enabled[i])
                    IN  IsMiningPhase(params, block.height) =>
                            \A quorumIndex \in 0 .. QuorumsNum(chainTip, params, block.height) - 1 :
                                LET quorumHash == GetQuorumBlockHash(chainTip, params, block.height, quorumIndex)
                                IN  quorumHash # NullHash /\ ~DbExists(mc, <<params.type, quorumHash>>) =>
                                        Cardinality({k \in 1 .. Len(qcs) :
                                            /\ qcs[k].llmqType = params.type
                                            /\ qcs[k].quorumIndex = quorumIndex
                                            /\ qcs[k].quorumHash = quorumHash}) = 1

\* C4: no accepted block carries a commitment, null or not, for a slot that
\* has a confirmed commitment
C4_NoLater ==
    \A block \in Blocks(chainTip) :
        ProcessBlock(Cur, chainTip, block, FALSE).ok =>
            \A k \in 1 .. Len(BlockCommitments(block)) :
                LET qc == BlockCommitments(block)[k]
                IN  ~DbExists(mc, <<qc.llmqType, qc.quorumHash>>)

\* C5: a call of ProcessBlock that fails leaves the primary records and both
\* reverse indexes as they were
C5_FailureLeavesStore ==
    \A block \in Blocks(chainTip) :
        LET r == ProcessBlock(Cur, chainTip, block, FALSE)
        IN  ~r.ok => Store(r.s) = Store(Cur)

\* C6: confirming a non-null commitment and undoing the confirming block
\* restores the primary records, both reverse indexes and the answers of
\* HasMinedCommitment
C6_UndoExact ==
    \A block \in Blocks(chainTip) :
        LET r == ProcessBlock(Cur, chainTip, block, FALSE)
            u == UndoBlock(r.s, block)
            qcs == BlockCommitments(block)
        IN  r.ok /\ (\E k \in 1 .. Len(qcs) : ~IsNull(qcs[k])) =>
                /\ u.ok
                /\ Store(u.s) = Store(Cur)
                /\ \A k \in 1 .. Len(qcs) :
                       HasMinedCommitment(u.s, qcs[k].llmqType, qcs[k].quorumHash)
                           = HasMinedCommitment(Cur, qcs[k].llmqType, qcs[k].quorumHash)

\* C7: for an accepted block, ProcessBlock, UndoBlock and ProcessBlock again
\* all succeed and leave the store a single ProcessBlock leaves
C7_Reprocess ==
    \A block \in Blocks(chainTip) :
        LET r1 == ProcessBlock(Cur, chainTip, block, FALSE)
            u == UndoBlock(r1.s, block)
            r2 == ProcessBlock(u.s, chainTip, block, FALSE)
        IN  r1.ok => u.ok /\ r2.ok /\ Store(r2.s) = Store(r1.s) /\ r2.s.bbu = r1.s.bbu

\* C8: ProcessBlock with fJustCheck returns what it returns without, and
\* leaves the records, the indexes, the marker, the cache and the pool alone
C8_JustCheck ==
    \A block \in Blocks(chainTip) :
        LET rj == ProcessBlock(Cur, chainTip, block, TRUE)
            rf == ProcessBlock(Cur, chainTip, block, FALSE)
        IN  rj.ok = rf.ok /\ rj.s = Cur

\* the blocks of two different commitments of one committee type, in both orders
PairBlocks(prev) ==
    LET all == SlotTxs(prev)
    IN  {Block(prev, <<all[i], all[j]>>) : <<i, j>> \in
            {ij \in (1 .. Len(all)) \X (1 .. Len(all)) :
                ij[1] # ij[2] /\ all[ij[1]].commitment.llmqType = all[ij[2]].commitment.llmqType}}

\* C9: a block of two commitments of one type is rejected with bad-qc-dup,
\* by the extraction and by ProcessBlock at or above the activation height,
\* when rotation is disabled for the type at the block; it is not rejected
\* with bad-qc-dup when rotation is enabled and the sub-indexes differ
C9_Duplicates ==
    \A block \in PairBlocks(chainTip) :
        LET got == GetCommitmentsFromBlock(block)
            r == ProcessBlock(Cur, chainTip, block, FALSE)
            qc1 == block.txs[1].commitment
            qc2 == block.txs[2].commitment
            rotation_enabled == IsQuorumRotationEnabled(GetLLMQParams(qc1.llmqType), block)
        IN  /\ ~rotation_enabled =>
                /\ ~got.ok /\ got.reason = "bad-qc-dup"
                /\ Activated(block) => ~r.ok /\ r.reason = "bad-qc-dup"
            /\ rotation_enabled /\ qc1.quorumIndex # qc2.quorumIndex =>
                /\ got.reason # "bad-qc-dup"
                /\ Activated(block) => got.ok /\ r.reason # "bad-qc-dup"

\* a connected block with commitments of the two sub-indexes of the rotating
\* type, on which a block of two commitments of the other type is rejected
C9_Witness ==
    /\ Activated(chainTip)
    /\ \E k, l \in 1 .. Len(chainTip.txs) :
           /\ chainTip.txs[k].commitment.llmqType = chainTip.txs[l].commitment.llmqType
           /\ chainTip.txs[k].commitment.quorumIndex # chainTip.txs[l].commitment.quorumIndex
    /\ \E block \in PairBlocks(chainTip) :
           ProcessBlock(Cur, chainTip, block, FALSE).reason = "bad-qc-dup"

\* C10: below the activation height ProcessBlock accepts a block only if
\* it carries no commitment
C10_Premature ==
    \A block \in Blocks(chainTip) :
        ~Activated(block) => (ProcessBlock(Cur, chainTip, block, FALSE).ok <=> block.txs = <<>>)

\* the blocks of valid null commitments on top of prev with one more
\* commitment, of the type that is not enabled: a null one for the first slot
\* of the cycle, or a non-null one for a slot that starts after the tip
DisabledTypeBlocks(prev) ==
    {Block(prev, Append(b.txs, Tx(SlotCommitment(prev, LLMQ_T3, ic[1], ic[2])))) :
        b \in {n \in Blocks(prev) : \A k \in 1 .. Len(n.txs) :
                    n.txs[k].payloadOk /\ VerifyNull(n.txs[k].commitment)
                    /\ n.txs[k].commitment.llmqType \in KnownTypes},
        ic \in {<<0, 0>>, <<MaxHeight, 1>>}}

\* the committee block hash ProcessCommitment expects of a commitment in a block on the tip
ExpectedHash(block, qc) ==
    GetQuorumBlockHash(chainTip, GetLLMQParams(qc.llmqType), block.height, qc.quorumIndex)

BadQuorumBlock(block, qc) ==
    ExpectedHash(block, qc) = NullHash \/ ExpectedHash(block, qc) # qc.quorumHash

\* C11 as stated, for blocks at or above the activation height on a chain
\* with a tip: a block with a commitment whose committee block hash is not the
\* expected one, or whose expected hash is null, is rejected with bad-qc-block
C11_Original ==
    \A block \in Blocks(chainTip) \cup DisabledTypeBlocks(chainTip) :
        LET r == ProcessBlock(Cur, chainTip, block, FALSE)
            qcs == BlockCommitments(block)
        IN  Activated(block) /\ (\E k \in 1 .. Len(qcs) : BadQuorumBlock(block, qcs[k])) =>
                ~r.ok /\ r.reason = "bad-qc-block"

\* C11 as amended: while the active chain has a tip, a block at or above the
\* activation height with such a commitment is rejected, and with
\* bad-qc-block when the block passes the extraction and the count validation
\* and the commitments before the first such one, in type order, pass
C11_BadBlock ==
    \A block \in Blocks(chainTip) \cup DisabledTypeBlocks(chainTip) :
        LET r == ProcessBlock(Cur, chainTip, block, FALSE)
            got == GetCommitmentsFromBlock(block)
            counted == CheckCounts(Cur, chainTip, block, got.qcs, GetEnabledQuorumParams(block.prev), 1)
            bad == {k \in 1 .. Len(got.qcs) : BadQuorumBlock(block, got.qcs[k])}
            first == CHOOSE k \in bad : \A j \in bad : k <= j
            before == ProcessCommitments(counted.s, chainTip, block, SubSeq(got.qcs, 1, first - 1), 1, FALSE)
        IN  Activated(block) /\ (\E k \in 1 .. Len(BlockCommitments(block)) :
                                    BadQuorumBlock(block, BlockCommitments(block)[k])) =>
                /\ ~r.ok
                /\ got.ok /\ counted.ok /\ before.ok => r.reason = "bad-qc-block"

\* on the tip a block is rejected with bad-qc-block for a commitment naming
\* another block than expected, and one for a commitment whose expected
\* committee block is not on the chain yet
C11_Witness ==
    /\ Activated(chainTip)
    /\ \E b1 \in Blocks(chainTip), b2 \in DisabledTypeBlocks(chainTip) :
           /\ ProcessBlock(Cur, chainTip, b1, FALSE).reason = "bad-qc-block"
           /\ \E k \in 1 .. Len(b1.txs) : ExpectedHash(b1, b1.txs[k].commitment) # NullHash
                                          /\ BadQuorumBlock(b1, b1.txs[k].commitment)
           /\ ProcessBlock(Cur, chainTip, b2, FALSE).reason = "bad-qc-block"
           /\ \A k \in 1 .. Len(b2.txs) :
                  BadQuorumBlock(b2, b2.txs[k].commitment) => ExpectedHash(b2, b2.txs[k].commitment) = NullHash

\* C12: while the active chain has a tip, no accepted block at or above the
\* activation height carries a commitment, null or not, of a type that is
\* outside its mining phase at the height of the block
C12_MiningPhase ==
    \A block \in Blocks(chainTip) \cup DisabledTypeBlocks(chainTip) :
        Activated(block) /\ ProcessBlock(Cur, chainTip, block, FALSE).ok =>
            \A k \in 1 .. Len(BlockCommitments(block)) :
                IsMiningPhase(GetLLMQParams(BlockCommitments(block)[k].llmqType), block.height)

-----------------------------------------------------------------------------
(* Properties of ProcessMessage and of the pool.  They are stated over     *)
(* every commitment that can arrive in a reachable state of the node.      *)

Received(qc) == ProcessMessage(Cur, chainTip, BlockIndex(chainTip), qc)

Pool(s) == [byQuorum |-> s.byQuorum, minable |-> s.minable]

\* the checks of ProcessMessage on the committee block of a commitment of a known type
Found(qc) == LookupBlockIndex(BlockIndex(chainTip), qc.quorumHash) # NullHash
OnActiveChain(qc) == GetAncestor(chainTip, qc.quorumHash.height) = qc.quorumHash
Aligned(qc) ==
    qc.quorumHash.height - (qc.quorumHash.height % GetLLMQParams(qc.llmqType).dkgInterval) + qc.quorumIndex
        = qc.quorumHash.height
TooOld(qc) == qc.quorumHash.height < ActiveHeight(chainTip) - GetLLMQParams(qc.llmqType).dkgInterval

\* C13 as stated: a commitment that is null, of an unknown type, or whose
\* committee block is not in the block index is penalized and not admitted
C13_Original ==
    \A qc \in Messages(chainTip) :
        IsNull(qc) \/ qc.llmqType \notin KnownTypes \/ ~Found(qc) =>
            Received(qc).misbehaving > 0 /\ ~Received(qc).added /\ Pool(Received(qc).s) = Pool(Cur)

\* C13 as amended: a commitment that is null or of an unknown type is
\* penalized and not admitted; a non-null commitment of a known type whose
\* committee block is not in the block index is not admitted and not penalized
C13_Penalized ==
    \A qc \in Messages(chainTip) :
        /\ IsNull(qc) \/ qc.llmqType \notin KnownTypes =>
               Received(qc).misbehaving = 100 /\ ~Received(qc).added /\ Received(qc).s = Cur
        /\ ~IsNull(qc) /\ qc.llmqType \in KnownTypes /\ ~Found(qc) =>
               Received(qc).misbehaving = 0 /\ ~Received(qc).added /\ Received(qc).s = Cur

\* the pool holds a candidate, and peers send a null commitment, one of an
\* unknown type and one naming an unknown block for the slot of the candidate
C13_Witness ==
    /\ \E n \in Messages(chainTip) :
           /\ IsNull(n) /\ n.llmqType \in KnownTypes /\ DbExists(byQuorum, <<n.llmqType, n.quorumHash>>)
           /\ Received(n).misbehaving = 100
    /\ \E u \in Messages(chainTip) :
           /\ ~IsNull(u) /\ u.llmqType \notin KnownTypes /\ DbExists(byQuorum, <<LLMQ_T2, u.quorumHash>>)
           /\ Received(u).misbehaving = 100
    /\ \E b \in Messages(chainTip) :
           /\ ~IsNull(b) /\ b.llmqType \in KnownTypes /\ ~Found(b)
           /\ Received(b).misbehaving = 0 /\ ~Received(b).added

\* C14 as stated, for non-null commitments of a known type whose committee
\* block is in the block index: when the committee block is not on the active
\* chain or is more than one dkgInterval behind the tip, the commitment is
\* neither penalized nor admitted, aligned to its sub-index or not
C14_Original ==
    \A qc \in Messages(chainTip) :
        ~IsNull(qc) /\ qc.llmqType \in KnownTypes /\ Found(qc) /\ (~OnActiveChain(qc) \/ TooOld(qc)) =>
            Received(qc).misbehaving = 0 /\ ~Received(qc).added

\* C14 as amended: such a commitment is neither penalized nor admitted when
\* its committee block is not on the active chain, aligned or not, or when it
\* is on the active chain, aligned to its sub-index and more than one
\* dkgInterval behind the tip; when the committee block is on the active
\* chain and not aligned, the commitment is penalized, too old or not
C14_Ignored ==
    \A qc \in Messages(chainTip) :
        ~IsNull(qc) /\ qc.llmqType \in KnownTypes /\ Found(qc) =>
            /\ ~OnActiveChain(qc) \/ (Aligned(qc) /\ TooOld(qc)) =>
                   Received(qc).misbehaving = 0 /\ ~Received(qc).added /\ Received(qc).s = Cur
            /\ OnActiveChain(qc) /\ ~Aligned(qc) =>
                   Received(qc).misbehaving = 100 /\ ~Received(qc).added /\ Received(qc).s = Cur

\* the tip is more than one dkgInterval above the first block: peers send an
\* aligned and a misaligned commitment naming it, and a misaligned one naming
\* the side block
C14_Witness ==
    /\ \E a \in Messages(chainTip) :
           /\ ~IsNull(a) /\ a.llmqType \in KnownTypes /\ Found(a)
           /\ OnActiveChain(a) /\ Aligned(a) /\ TooOld(a) /\ Received(a).misbehaving = 0
    /\ \E m \in Messages(chainTip) :
           /\ ~IsNull(m) /\ m.llmqType \in KnownTypes /\ Found(m)
           /\ OnActiveChain(m) /\ ~Aligned(m) /\ TooOld(m) /\ Received(m).misbehaving = 100
    /\ \E o \in Messages(chainTip) :
           /\ ~IsNull(o) /\ o.llmqType \in KnownTypes /\ Found(o)
           /\ ~OnActiveChain(o) /\ ~Aligned(o) /\ Received(o).misbehaving = 0

\* the pool's candidate for a slot: NullHash when it holds none
Best(s, k) ==
    IF DbExists(s.byQuorum, k) /\ DbExists(s.minable, DbRead(s.byQuorum, k))
    THEN DbRead(s.minable, DbRead(s.byQuorum, k)) ELSE NullHash

Slot(qc) == <<qc.llmqType, qc.quorumHash>>

\* a commitment that passes every check of ProcessMessage but the one against the pool
PassesOtherChecks(qc) ==
    /\ ~IsNull(qc) /\ qc.llmqType \in KnownTypes /\ Found(qc)
    /\ OnActiveChain(qc) /\ Aligned(qc) /\ ~TooOld(qc)
    /\ ~HasMinedCommitment(Cur, qc.llmqType, qc.quorumHash)
    /\ Verify(qc)

\* C15: when the pool holds a candidate for an unconfirmed slot and a
\* commitment for the slot arrives that passes every other check and has
\* strictly more signers, the pool's candidate for the slot is afterwards the
\* commitment that arrived
C15_Replaces ==
    \A qc \in Messages(chainTip) :
        /\ PassesOtherChecks(qc) /\ Best(Cur, Slot(qc)) # NullHash
        /\ CountSigners(qc) > CountSigners(Best(Cur, Slot(qc)))
        => Best(Received(qc).s, Slot(qc)) = qc

\* C16: when the pool holds for the slot of an arriving commitment a candidate
\* with at least as many signers, qc.Verify is not run and the pool is unchanged
C16_NoVerify ==
    \A qc \in Messages(chainTip) :
        /\ ~IsNull(qc) /\ qc.llmqType \in KnownTypes /\ Best(Cur, Slot(qc)) # NullHash
        /\ CountSigners(Best(Cur, Slot(qc))) >= CountSigners(qc)
        => ~Received(qc).verified /\ Pool(Received(qc).s) = Pool(Cur)

\* the commitments AddMineableCommitment can be called with for the slots of
\* the cycle: it does not verify them
AddInputs(act) ==
    {Commitment(LLMQ_T2, i, GetAncestor(act, i), FALSE, c, v) :
        i \in {j \in 0 .. 1 : GetAncestor(act, j) # NullHash}, c \in {1, MaxSigners}, v \in BOOLEAN}

\* C17: a call of AddMineableCommitment makes the commitment the candidate of
\* its slot when the slot has none or when it has strictly more signers than
\* the incumbent, and leaves the incumbent on a tie or with fewer signers (so
\* the candidate is the first admitted among those with the most signers);
\* the candidates of the other slots stay
C17_Best ==
    \A fqc \in AddInputs(chainTip) :
        LET old == Best(Cur, Slot(fqc))
            r == AddMineableCommitment(Cur, fqc)
        IN  /\ ~r.threw
            /\ Best(r.s, Slot(fqc)) = IF old = NullHash THEN fqc
                                      ELSE IF CountSigners(fqc) > CountSigners(old) THEN fqc
                                      ELSE old
            /\ \A other \in AddInputs(chainTip) :
                   Slot(other) # Slot(fqc) => Best(r.s, Slot(other)) = Best(Cur, Slot(other))

\* a slot whose candidate replaced one with fewer signers, offered another
\* commitment with as many signers, one with fewer and, for its neighbour
\* slot, a first one
C17_Witness ==
    \E fqc \in AddInputs(chainTip) :
        /\ Best(Cur, Slot(fqc)) # NullHash /\ Best(Cur, Slot(fqc)) # fqc
        /\ CountSigners(Best(Cur, Slot(fqc))) = CountSigners(fqc)
        /\ \E low \in AddInputs(chainTip) :
               /\ Slot(low) = Slot(fqc) /\ CountSigners(low) < CountSigners(fqc)
               /\ HasMineableCommitment(Cur, SerializeHash(low))
        /\ \E other \in AddInputs(chainTip) : Slot(other) # Slot(fqc) /\ Best(Cur, Slot(other)) = NullHash

\* the blocks the node connects: its own and those of peers
MsgBlocks == {NewBlock(Cur, chainTip)} \cup {PeerBlock(Cur, chainTip, c) : c \in {0, 1, MaxSigners}}

\* C18: after ProcessBlock has confirmed a non-null commitment, the pool has
\* no entry for the slot and the candidate it held for the slot before the
\* call cannot be fetched by its hash, whether it is the mined commitment or not
C18_PoolCleared ==
    \A block \in MsgBlocks :
        LET r == ProcessBlock(Cur, chainTip, block, FALSE)
        IN  r.ok => \A i \in 1 .. Len(block.txs) :
                LET qc == block.txs[i].commitment
                IN  ~IsNull(qc) =>
                        /\ ~DbExists(r.s.byQuorum, Slot(qc))
                        /\ DbExists(byQuorum, Slot(qc)) =>
                               ~GetMineableCommitmentByHash(r.s, DbRead(byQuorum, Slot(qc))).found

\* C19: after UndoBlock of a block that confirmed non-null commitments, each
\* of their slots has no confirmed record (HasMinedCommitment is false,
\* GetMinedCommitment gives nothing, no reverse-index entry of the block's
\* height is left) and its commitment is in the pool again, as the candidate
\* of its slot; undoing a block of null commitments changes neither the
\* records and indexes nor the pool
C19_Undone ==
    \A block \in Blocks(chainTip) :
        LET r == ProcessBlock(Cur, chainTip, block, FALSE)
            u == UndoBlock(r.s, block)
            qcs == BlockCommitments(block)
        IN  r.ok /\ Activated(block) =>
                /\ u.ok
                /\ \A k \in 1 .. Len(qcs) : ~IsNull(qcs[k]) =>
                       /\ ~HasMinedCommitment(u.s, qcs[k].llmqType, qcs[k].quorumHash)
                       /\ GetMinedCommitment(u.s, qcs[k].llmqType, qcs[k].quorumHash).ptr = NullHash
                       /\ ~DbExists(u.s.ih, BuildInversedHeightKey(qcs[k].llmqType, block.height))
                       /\ ~DbExists(u.s.ihi, BuildInversedHeightKeyIndexed(qcs[k].llmqType, block.height,
                                                                           qcs[k].quorumIndex))
                       /\ GetMineableCommitmentByHash(u.s, SerializeHash(qcs[k])).found
                       /\ Best(u.s, Slot(qcs[k])) = qcs[k]
                /\ (\A k \in 1 .. Len(qcs) : IsNull(qcs[k])) =>
                       Store(u.s) = Store(r.s) /\ Pool(u.s) = Pool(r.s)

\* the sub-indexes of the slots a block at nHeight has to carry a commitment
\* for, in ascending order: the committee block is on the active chain and
\* the slot has no confirmed commitment
RequiredSlots(llmqParams, nHeight) ==
    SelectSeq([q \in 1 .. QuorumsNum(chainTip, llmqParams, nHeight) |-> q - 1],
              LAMBDA quorumIndex :
                  LET quorumHash == GetQuorumBlockHash(chainTip, llmqParams, nHeight, quorumIndex)
                  IN  quorumHash # NullHash /\ ~HasMinedCommitment(Cur, llmqParams.type, quorumHash))

\* C20: GetMineableCommitments returns nothing exactly when
\* GetNumCommitmentsRequired is 0; otherwise it returns one commitment per
\* required slot, as many as GetNumCommitmentsRequired says, each the pool's
\* candidate of the slot or, when the pool has none, a null commitment with the
\* committee block hash and the sub-index of the slot
C20_Mineable ==
    \A t \in KnownTypes : \A nHeight \in {chainTip.height, chainTip.height + 1} \ {0} :
        LET llmqParams == GetLLMQParams(t)
            got == GetMineableCommitments(Cur, chainTip, llmqParams, nHeight)
            required == GetNumCommitmentsRequired(Cur, chainTip, llmqParams, nHeight)
            slots == RequiredSlots(llmqParams, nHeight)
        IN  /\ ~got.has <=> required = 0
            /\ got.has =>
                   /\ Len(got.ret) = required /\ Len(slots) = required
                   /\ \A j \in 1 .. Len(got.ret) :
                          LET quorumHash == GetQuorumBlockHash(chainTip, llmqParams, nHeight, slots[j])
                              best == Best(Cur, <<t, quorumHash>>)
                          IN  IF best # NullHash THEN got.ret[j] = best
                              ELSE /\ IsNull(got.ret[j]) /\ got.ret[j].llmqType = t
                                   /\ got.ret[j].quorumHash = quorumHash
                                   /\ got.ret[j].quorumIndex = slots[j]

\* the next block is in the mining window of the rotating type, the pool
\* holds a candidate for one of its two slots and none for the other
C20_Witness ==
    LET got == GetMineableCommitments(Cur, chainTip, GetLLMQParams(LLMQ_T2), chainTip.height + 1)
    IN  /\ got.has /\ Len(got.ret) = 2
        /\ \E i, j \in 1 .. 2 : IsNull(got.ret[i]) /\ ~IsNull(got.ret[j])

-----------------------------------------------------------------------------
(* CQuorumBlockProcessor: the reverse indexes read back *)

\* a uint32 computed from a key is held as two 16-bit halves, the high one first
Uint32(n) == <<n \div 65536, n % 65536>>          \* static_cast<uint32_t> of an int >= 0
UINT32_MAX == <<65535, 65535>>                    \* std::numeric_limits<uint32_t>::max()

\* a - b and a < b in uint32 arithmetic
Sub32(a, b) ==
    LET lo == a[2] - b[2]
        hi == a[1] - b[1] - (IF lo < 0 THEN 1 ELSE 0)
    IN  <<hi % 65536, lo % 65536>>
Less32(a, b) == a[1] < b[1] \/ (a[1] = b[1] /\ a[2] < b[2])

\* be32toh(x): the uint32 whose big-endian bytes the key holds
be32toh(b) == <<b[1] * 256 + b[2], b[3] * 256 + b[4]>>

\* the order of the database: serialized keys compared byte by byte
RECURSIVE BytesLess(_, _)
BytesLess(a, b) ==
    IF b = <<>> THEN FALSE
    ELSE IF a = <<>> THEN TRUE
    ELSE a[1] < b[1] \/ (a[1] = b[1] /\ BytesLess(Tail(a), Tail(b)))

\* a key as the database holds it: the namespace string behind its length (6 for
\* "q_mcih", 7 for "q_mcihi", which decides the order of the two), the type, the
\* sub-index if any and the inverted height
SerializeKey(key) == <<6, key[1]>> \o key[2]
SerializeKeyIndexed(key) == <<7, key[1], key[2]>> \o key[3]

\* the entries of the two reverse indexes as an iterator of the database meets them
Rows(s) ==
    {[ns |-> "q_mcih", llmqType |-> p[1][1], quorumIndex |-> 0, inv |-> p[1][2],
      value |-> p[2], ser |-> SerializeKey(p[1])] : p \in s.ih}
    \cup {[ns |-> "q_mcihi", llmqType |-> p[1][1], quorumIndex |-> p[1][2], inv |-> p[1][3],
           value |-> p[2], ser |-> SerializeKeyIndexed(p[1])] : p \in s.ihi}

\* dbIt->Seek(firstKey): what is left to visit, and the entry the iterator is at
Seek(rows, firstSer) == {r \in rows : ~BytesLess(r.ser, firstSer)}
Front(rows) == CHOOSE r \in rows : \A o \in rows : ~BytesLess(o.ser, r.ser)

\* curKey >= lastKey with lastKey the key of height 0 in the namespace ns: the
\* tuples are compared field by field; the last field of lastKey is the all-ones
\* word, so that the comparison of the last field is the same for either byte order
AtOrPastLast(cur, ns, llmqType, quorumIndex) ==
    LET rank(n) == IF n = "q_mcih" THEN 6 ELSE 7
    IN  \/ rank(cur.ns) > rank(ns)
        \/ /\ cur.ns = ns
           /\ \/ cur.llmqType > llmqType
              \/ cur.llmqType = llmqType /\ cur.quorumIndex > quorumIndex
              \/ cur.llmqType = llmqType /\ cur.quorumIndex = quorumIndex
                     /\ ~Less32(be32toh(cur.inv), UINT32_MAX)

RECURSIVE UntilBlockLoop(_, _, _, _, _)
\* the loop of GetMinedCommitmentsUntilBlock without the test of maxCount
UntilBlockLoop_Unbounded(rows, llmqType, pindex, maxCount, ret) ==
    IF rows = {} THEN ret
    ELSE LET cur == Front(rows)
             nMinedHeight == Sub32(UINT32_MAX, be32toh(cur.inv))
         IN  IF AtOrPastLast(cur, "q_mcih", llmqType, 0) THEN ret
             ELSE IF cur.ns # "q_mcih" \/ cur.llmqType # llmqType THEN ret
             ELSE IF Less32(Uint32(pindex.height), nMinedHeight) THEN ret
             ELSE UntilBlockLoop(rows \ {cur}, llmqType, pindex, maxCount,
                                 Append(ret, GetAncestor(pindex, cur.value)))

UntilBlockLoop(rows, llmqType, pindex, maxCount, ret) ==
    IF rows = {} \/ Len(ret) >= maxCount THEN ret
    ELSE LET cur == Front(rows)
             nMinedHeight == Sub32(UINT32_MAX, be32toh(cur.inv))
         IN  IF AtOrPastLast(cur, "q_mcih", llmqType, 0) THEN ret
             ELSE IF cur.ns # "q_mcih" \/ cur.llmqType # llmqType THEN ret
             ELSE IF Less32(Uint32(pindex.height), nMinedHeight) THEN ret
             ELSE UntilBlockLoop(rows \ {cur}, llmqType, pindex, maxCount,
                                 Append(ret, GetAncestor(pindex, cur.value)))

GetMinedCommitmentsUntilBlock(s, llmqType, pindex, maxCount) ==
    LET firstKey == BuildInversedHeightKey(llmqType, pindex.height)
    IN  UntilBlockLoop(Seek(Rows(s), SerializeKey(firstKey)), llmqType, pindex, maxCount, <<>>)

\* the optional result of the per-index query
Nullopt == [has |-> FALSE]
MakeOptional(b) == [has |-> TRUE, value |-> b]

RECURSIVE ByQuorumIndexLoop(_, _, _, _, _, _)
ByQuorumIndexLoop(rows, llmqType, pindex, quorumIndex, cycle, currentCycle) ==
    IF rows = {} THEN Nullopt
    ELSE LET cur == Front(rows)
             nMinedHeight == Sub32(UINT32_MAX, be32toh(cur.inv))
         IN  IF AtOrPastLast(cur, "q_mcihi", llmqType, quorumIndex) THEN Nullopt
             ELSE IF cur.ns # "q_mcihi" \/ cur.llmqType # llmqType THEN Nullopt
             ELSE IF Less32(Uint32(pindex.height), nMinedHeight) THEN Nullopt
             ELSE IF currentCycle = cycle THEN MakeOptional(GetAncestor(pindex, cur.value))
             ELSE ByQuorumIndexLoop(rows \ {cur}, llmqType, pindex, quorumIndex, cycle,
                                    currentCycle + 1)

\* the per-index query answering with the most recent entry whatever the cycle asked
GetLastMinedCommitmentsByQuorumIndexUntilBlock_Newest(s, llmqType, pindex, quorumIndex, cycle) ==
    LET firstKey == BuildInversedHeightKeyIndexed(llmqType, pindex.height, quorumIndex)
    IN  ByQuorumIndexLoop(Seek(Rows(s), SerializeKeyIndexed(firstKey)),
                          llmqType, pindex, quorumIndex, 0, 0)

GetLastMinedCommitmentsByQuorumIndexUntilBlock(s, llmqType, pindex, quorumIndex, cycle) ==
    LET firstKey == BuildInversedHeightKeyIndexed(llmqType, pindex.height, quorumIndex)
    IN  ByQuorumIndexLoop(Seek(Rows(s), SerializeKeyIndexed(firstKey)),
                          llmqType, pindex, quorumIndex, cycle, 0)

RECURSIVE PerQuorumIndexLoop(_, _, _, _, _, _)
PerQuorumIndexLoop(s, llmqType, pindex, cycle, quorumIndex, ret) ==
    IF quorumIndex >= GetLLMQParams(llmqType).signingActiveQuorumCount THEN ret
    ELSE LET q == GetLastMinedCommitmentsByQuorumIndexUntilBlock(s, llmqType, pindex, quorumIndex, cycle)
         IN  PerQuorumIndexLoop(s, llmqType, pindex, cycle, quorumIndex + 1,
                                IF q.has THEN Append(ret, <<quorumIndex, q.value>>) ELSE ret)

GetLastMinedCommitmentsPerQuorumIndexUntilBlock(s, llmqType, pindex, cycle) ==
    PerQuorumIndexLoop(s, llmqType, pindex, cycle, 0, <<>>)

\* GetMinedCommitmentsIndexedUntilBlock, one test of its loop and the iteration or
\* the return that follows: loop is [ret, cycle, done]
IndexedLoopStart == [ret |-> <<>>, cycle |-> 0, done |-> FALSE]

IndexedIteration(s, llmqType, pindex, maxCount, loop) ==
    IF ~(Len(loop.ret) < maxCount) THEN [loop EXCEPT !.done = TRUE]
    ELSE LET cycleRet == GetLastMinedCommitmentsPerQuorumIndexUntilBlock(s, llmqType, pindex, loop.cycle)
             cycleRetTransformed == [i \in 1 .. Len(cycleRet) |-> cycleRet[i][2]]
             needToCopy == maxCount - Len(loop.ret)
             n == IF needToCopy < Len(cycleRetTransformed) THEN needToCopy
                  ELSE Len(cycleRetTransformed)
         IN  IF cycleRet = <<>> THEN [loop EXCEPT !.done = TRUE]
             ELSE [ret |-> loop.ret \o SubSeq(cycleRetTransformed, 1, n),
                   cycle |-> loop.cycle + 1, done |-> FALSE]

-----------------------------------------------------------------------------
(* A node whose store and scheduler are queried *)

QueryTip == 9         \* the chain whose reverse indexes are queried is run up to this height
MaxCount == 2         \* the largest maxCount of a query
ExampleHeight == 40   \* the height of the example of the mining phase

\* the committee parameters of the example of the mining phase
ExampleParams ==
    [type |-> LLMQ_T1, dkgInterval |-> 24, dkgMiningWindowStart |-> 5, dkgMiningWindowEnd |-> 10,
     signingActiveQuorumCount |-> 1, useRotation |-> FALSE]

QueryParams == {GetLLMQParams(t) : t \in KnownTypes} \cup {ExampleParams}

\* the processor after construction
Fresh ==
    [mc |-> {}, ih |-> {}, ihi |-> {}, bbu |-> NullHash,
     cache |-> {}, byQuorum |-> {}, minable |-> {}]

\* the slots <<type, sub-index, cycle start>> whose mining window ends on the chain
QuerySlots ==
    {sl \in {LLMQ_T1, LLMQ_T2} \X {0, 1} \X (0 .. QueryTip) :
        /\ sl[1] = LLMQ_T1 => sl[2] = 0
        /\ sl[3] % GetLLMQParams(sl[1]).dkgInterval = 0
        /\ sl[3] + GetLLMQParams(sl[1]).dkgMiningWindowEnd <= QueryTip}

\* the height at which the committee of a slot finalizes its commitment: the
\* first or the last height of the mining window
FinalizedAt(sl, late) ==
    sl[3] + (IF late THEN GetLLMQParams(sl[1]).dkgMiningWindowEnd
             ELSE GetLLMQParams(sl[1]).dkgMiningWindowStart)

RECURSIVE AddAll(_, _)
AddAll(s, fqcs) ==
    IF fqcs = {} THEN s
    ELSE LET fqc == CHOOSE f \in fqcs : TRUE
         IN  AddAll(AddMineableCommitment(s, fqc).s, fqcs \ {fqc})

\* the node run from the genesis block up to a height: before every block the
\* committees of the slots finalized at its height hand in their commitment,
\* then the node creates the block from its pool and connects it
RECURSIVE QueryRun(_, _, _, _, _)
QueryRun(s, act, mined, late, upTo) ==
    IF act.height >= upTo THEN [s |-> s, tip |-> act]
    ELSE LET nHeight == act.height + 1
             s1 == AddAll(s, {SlotCommitment(act, sl[1], sl[2], 1) :
                                sl \in {q \in mined : FinalizedAt(q, late) = nHeight}})
             block == NewBlock(s1, act)
             r == ProcessBlock(s1, act, block, FALSE)
         IN  IF ~r.ok THEN [s |-> Rollback(s1, r.s), tip |-> act]
             ELSE QueryRun(r.s, block, mined, late, upTo)

\* the chain of the example: the scheduler reads nothing of it but its height
RECURSIVE ExampleChain(_)
ExampleChain(h) == IF h = 0 THEN Genesis ELSE Block(ExampleChain(h - 1), <<>>)

QueryRuns ==
    {QueryRun(Fresh, Genesis, mined, late, QueryTip) :
        mined \in SUBSET QuerySlots, late \in BOOLEAN}
    \cup {[s |-> Fresh, tip |-> ExampleChain(ExampleHeight)]}

InitQuery ==
    \E run \in QueryRuns :
        /\ chainTip = run.tip
        /\ mc = run.s.mc /\ ih = run.s.ih /\ ihi = run.s.ihi /\ bbu = run.s.bbu
        /\ cache = run.s.cache /\ byQuorum = run.s.byQuorum /\ minable = run.s.minable
        /\ threads = <<>> /\ lastQuery = NoQuery

\* the caller makes one query at a time
Idle == lastQuery = NoQuery

QueryIsMiningPhase(llmqParams, nHeight) ==
    /\ Idle /\ HeightAssertion(chainTip, nHeight)
    /\ lastQuery' = [op |-> "IsMiningPhase", llmqParams |-> llmqParams, nHeight |-> nHeight,
                     phase |-> IsMiningPhase(llmqParams, nHeight)]
    /\ UNCHANGED <<chainTip, mc, ih, ihi, bbu, cache, byQuorum, minable, threads>>

QueryNumCommitmentsRequired(llmqParams, nHeight) ==
    /\ Idle /\ HeightAssertion(chainTip, nHeight)
    /\ lastQuery' = [op |-> "GetNumCommitmentsRequired", llmqParams |-> llmqParams,
                     nHeight |-> nHeight,
                     count |-> GetNumCommitmentsRequired(Cur, chainTip, llmqParams, nHeight)]
    /\ cache' = GetNumCommitmentsRequiredFill(Cur, chainTip, llmqParams, nHeight).cache
    /\ UNCHANGED <<chainTip, mc, ih, ihi, bbu, byQuorum, minable, threads>>

\* the heights whose keys are built: around every byte boundary of the word, up
\* to the largest int
KeyHeights ==
    {0, 1, 2, 254, 255, 256, 257, 65535, 65536, 65537, 16777215, 16777216, 16777217,
     2147483646, 2147483647}

QueryKey(llmqType, nMinedHeight) ==
    /\ Idle
    /\ lastQuery' = [op |-> "BuildInversedHeightKey", llmqType |-> llmqType,
                     nMinedHeight |-> nMinedHeight,
                     key |-> BuildInversedHeightKey(llmqType, nMinedHeight)]
    /\ UNCHANGED <<chainTip, mc, ih, ihi, bbu, cache, byQuorum, minable, threads>>

QueryUntilBlock(llmqType, pindex, maxCount) ==
    /\ Idle
    /\ lastQuery' = [op |-> "GetMinedCommitmentsUntilBlock", llmqType |-> llmqType,
                     pindex |-> pindex, maxCount |-> maxCount,
                     ret |-> GetMinedCommitmentsUntilBlock(Cur, llmqType, pindex, maxCount)]
    /\ UNCHANGED <<chainTip, mc, ih, ihi, bbu, cache, byQuorum, minable, threads>>

\* GetMinedCommitmentsIndexedUntilBlock is entered ...
QueryIndexedUntilBlock(llmqType, pindex, maxCount) ==
    /\ Idle
    /\ lastQuery' = [op |-> "GetMinedCommitmentsIndexedUntilBlock", llmqType |-> llmqType,
                     pindex |-> pindex, maxCount |-> maxCount, loop |-> IndexedLoopStart]
    /\ UNCHANGED <<chainTip, mc, ih, ihi, bbu, cache, byQuorum, minable, threads>>

\* ... and tests its loop once more
IndexedStep ==
    /\ lastQuery.op = "GetMinedCommitmentsIndexedUntilBlock" /\ ~lastQuery.loop.done
    /\ \E loop \in {IndexedIteration(Cur, lastQuery.llmqType, lastQuery.pindex,
                                      lastQuery.maxCount, lastQuery.loop)} :
          lastQuery' = [lastQuery EXCEPT !.loop = loop]
    /\ UNCHANGED <<chainTip, mc, ih, ihi, bbu, cache, byQuorum, minable, threads>>

\* the query returns to its caller
QueryReturn ==
    /\ lastQuery # NoQuery
    /\ lastQuery.op = "GetMinedCommitmentsIndexedUntilBlock" => lastQuery.loop.done
    /\ lastQuery' = NoQuery
    /\ UNCHANGED <<chainTip, mc, ih, ihi, bbu, cache, byQuorum, minable, threads>>

NextQuery ==
    \/ \E llmqParams \in QueryParams, nHeight \in 0 .. chainTip.height + 1 :
          QueryIsMiningPhase(llmqParams, nHeight)
    \/ \E nHeight \in 0 .. chainTip.height + 1 :
          QueryNumCommitmentsRequired(ExampleParams, nHeight)
    \/ \E nMinedHeight \in KeyHeights : QueryKey(LLMQ_T1, nMinedHeight)
    \/ \E llmqType \in {LLMQ_T1, LLMQ_T2}, pindex \in Ancestors(chainTip), maxCount \in 0 .. MaxCount :
          QueryUntilBlock(llmqType, pindex, maxCount)
    \/ \E llmqType \in {LLMQ_T1, LLMQ_T2}, pindex \in Ancestors(chainTip), maxCount \in 0 .. MaxCount :
          QueryIndexedUntilBlock(llmqType, pindex, maxCount)
    \/ IndexedStep
    \/ QueryReturn

SpecQuery == InitQuery /\ [][NextQuery]_vars

-----------------------------------------------------------------------------
(* A node whose message handlers and cache readers run beside the chain *)

Threads == {1, 2}

IdleThread == [op |-> "idle"]

\* ProcessMessage while it holds cs_main: the checks of the committee block and of
\* HasMinedCommitment; goOn tells whether the handler goes on after the release
MessageChecks(s, act, index, qc) ==
    IF IsNull(qc) \/ qc.llmqType \notin KnownTypes THEN [s |-> s, goOn |-> FALSE]
    ELSE
    LET llmq_params == GetLLMQParams(qc.llmqType)
        pQuorumBaseBlockIndex == LookupBlockIndex(index, qc.quorumHash)
        quorumHeight == pQuorumBaseBlockIndex.height
                        - (pQuorumBaseBlockIndex.height % llmq_params.dkgInterval) + qc.quorumIndex
    IN  IF pQuorumBaseBlockIndex = NullHash THEN [s |-> s, goOn |-> FALSE]
        ELSE IF GetAncestor(act, pQuorumBaseBlockIndex.height) # pQuorumBaseBlockIndex
        THEN [s |-> s, goOn |-> FALSE]
        ELSE IF quorumHeight # pQuorumBaseBlockIndex.height THEN [s |-> s, goOn |-> FALSE]
        ELSE IF pQuorumBaseBlockIndex.height < ActiveHeight(act) - llmq_params.dkgInterval
        THEN [s |-> s, goOn |-> FALSE]
        ELSE [s |-> HasMinedCommitmentFill(s, qc.llmqType, qc.quorumHash),
              goOn |-> ~HasMinedCommitment(s, qc.llmqType, qc.quorumHash)]

\* ProcessMessage while it holds the pool lock: whether the handler goes on to
\* the verification
MessagePoolCheck(s, qc) ==
    LET k == <<qc.llmqType, qc.quorumHash>>
    IN  ~(/\ DbExists(s.byQuorum, k)
          /\ DbExists(s.minable, DbRead(s.byQuorum, k))
          /\ CountSigners(DbRead(s.minable, DbRead(s.byQuorum, k))) <= CountSigners(qc))

\* ProcessMessage after the pool lock: the verification and the admission
MessageAdmit(s, qc) == IF ~Verify(qc) THEN s ELSE AddMineableCommitment(s, qc).s

\* the valid commitments peers send for the two slots of the first cycle
RaceMessages(act) ==
    {Commitment(LLMQ_T2, i, GetAncestor(act, i), FALSE, c, TRUE) :
        i \in {j \in 0 .. 1 : GetAncestor(act, j) # NullHash}, c \in {1, MaxSigners}}

InitRace ==
    /\ chainTip = Genesis
    /\ mc = {} /\ ih = {} /\ ihi = {} /\ bbu = NullHash
    /\ cache = {} /\ byQuorum = {} /\ minable = {}
    /\ threads = [t \in Threads |-> IdleThread] /\ lastQuery = NoQuery

\* a thread enters ProcessMessage and runs it up to the release of cs_main
MessageEnter(t, qc) ==
    /\ threads[t] = IdleThread
    /\ LET r == MessageChecks(Cur, chainTip, BlockIndex(chainTip), qc)
       IN  /\ cache' = r.s.cache
           /\ threads' = [threads EXCEPT ![t] =
                            [op |-> "ProcessMessage", qc |-> qc,
                             pc |-> IF r.goOn THEN "pool" ELSE "done"]]
    /\ UNCHANGED <<chainTip, mc, ih, ihi, bbu, byQuorum, minable, lastQuery>>

\* ... looks for a better commitment under the pool lock
MessagePool(t) ==
    /\ threads[t].op = "ProcessMessage" /\ threads[t].pc = "pool"
    /\ threads' = [threads EXCEPT ![t].pc =
                      IF MessagePoolCheck(Cur, threads[t].qc) THEN "admit" ELSE "done"]
    /\ UNCHANGED <<chainTip, mc, ih, ihi, bbu, cache, byQuorum, minable, lastQuery>>

\* ... verifies the commitment and calls AddMineableCommitment
MessageAdd(t) ==
    /\ threads[t].op = "ProcessMessage" /\ threads[t].pc = "admit"
    /\ LET s == MessageAdmit(Cur, threads[t].qc)
       IN  byQuorum' = s.byQuorum /\ minable' = s.minable
    /\ threads' = [threads EXCEPT ![t].pc = "done"]
    /\ UNCHANGED <<chainTip, mc, ih, ihi, bbu, cache, lastQuery>>

\* a thread that does not hold cs_main enters HasMinedCommitment and looks the
\* slot up in the cache under the pool lock
HasMinedEnter(t, llmqType, quorumHash) ==
    /\ threads[t] = IdleThread
    /\ threads' = [threads EXCEPT ![t] =
          IF DbExists(cache, <<llmqType, quorumHash>>)
          THEN [op |-> "HasMinedCommitment", llmqType |-> llmqType, quorumHash |-> quorumHash,
                pc |-> "done", fExists |-> DbRead(cache, <<llmqType, quorumHash>>)]
          ELSE [op |-> "HasMinedCommitment", llmqType |-> llmqType, quorumHash |-> quorumHash,
                pc |-> "read", fExists |-> FALSE]]
    /\ UNCHANGED <<chainTip, mc, ih, ihi, bbu, cache, byQuorum, minable, lastQuery>>

\* ... asks the store, holding no lock
HasMinedRead(t) ==
    /\ threads[t].op = "HasMinedCommitment" /\ threads[t].pc = "read"
    /\ threads' = [threads EXCEPT ![t].pc = "insert",
                                  ![t].fExists = DbExists(mc, <<threads[t].llmqType, threads[t].quorumHash>>)]
    /\ UNCHANGED <<chainTip, mc, ih, ihi, bbu, cache, byQuorum, minable, lastQuery>>

\* ... and inserts the answer in the cache under the pool lock
HasMinedInsert(t) ==
    /\ threads[t].op = "HasMinedCommitment" /\ threads[t].pc = "insert"
    /\ cache' = DbWrite(cache, <<threads[t].llmqType, threads[t].quorumHash>>, threads[t].fExists)
    /\ threads' = [threads EXCEPT ![t].pc = "done"]
    /\ UNCHANGED <<chainTip, mc, ih, ihi, bbu, byQuorum, minable, lastQuery>>

\* the chain-processing thread, which holds cs_main for a whole call, connects
\* blocks up to the end of the first mining window
NextRace ==
    \/ \E t \in Threads, qc \in RaceMessages(chainTip) : MessageEnter(t, qc)
    \/ \E t \in Threads : MessagePool(t)
    \/ \E t \in Threads : MessageAdd(t)
    \/ \E t \in Threads, quorumHash \in {Genesis} : HasMinedEnter(t, LLMQ_T2, quorumHash)
    \/ \E t \in Threads : HasMinedRead(t)
    \/ \E t \in Threads : HasMinedInsert(t)
    \/ chainTip.height < MaxHeight /\ MineBlock
    \/ \E c \in {0, 1} : chainTip.height < MaxHeight /\ ConnectPeerBlock(c)

SpecRace == InitRace /\ [][NextRace]_vars

-----------------------------------------------------------------------------
(* Properties of the scheduler and of the store queries *)

\* the sub-indexes of a type at a height: 0 alone unless rotation is enabled
SubIndexes(llmqParams, nHeight) ==
    LET pindex == IF ActiveHeight(chainTip) < nHeight THEN chainTip ELSE GetAncestor(chainTip, nHeight)
    IN  IF IsQuorumRotationEnabled(llmqParams, pindex)
        THEN 0 .. llmqParams.signingActiveQuorumCount - 1 ELSE {0}

CycleStart(llmqParams, nHeight) == nHeight - (nHeight % llmqParams.dkgInterval)

\* C21: at every height up to the next block's, GetNumCommitmentsRequired is 0
\* outside the mining phase and otherwise the number of sub-indexes whose
\* committee block is on the active chain and has no confirmed record in the
\* store
C21_Required ==
    \A t \in KnownTypes : \A nHeight \in 1 .. chainTip.height + 1 :
        LET llmqParams == GetLLMQParams(t)
            phase == /\ nHeight >= CycleStart(llmqParams, nHeight) + llmqParams.dkgMiningWindowStart
                     /\ nHeight <= CycleStart(llmqParams, nHeight) + llmqParams.dkgMiningWindowEnd
            open == {i \in SubIndexes(llmqParams, nHeight) :
                        LET base == GetAncestor(chainTip, CycleStart(llmqParams, nHeight) + i)
                        IN  base # NullHash /\ ~DbExists(mc, <<t, base>>)}
        IN  GetNumCommitmentsRequired(Cur, chainTip, llmqParams, nHeight)
                = IF phase THEN Cardinality(open) ELSE 0

\* C22: IsMiningPhase answers true exactly at the heights whose offset in their
\* cycle lies between dkgMiningWindowStart and dkgMiningWindowEnd, both included;
\* with the parameters of the example the heights 29 to 34 are in the mining
\* phase, height 40 is not, and GetNumCommitmentsRequired is 0 at height 40
C22_Window ==
    /\ lastQuery.op = "IsMiningPhase" =>
          LET p == lastQuery.llmqParams
              offset == lastQuery.nHeight - CycleStart(p, lastQuery.nHeight)
          IN  /\ lastQuery.phase <=> offset \in p.dkgMiningWindowStart .. p.dkgMiningWindowEnd
              /\ p = ExampleParams /\ lastQuery.nHeight \in 29 .. 34 => lastQuery.phase
              /\ p = ExampleParams /\ lastQuery.nHeight = 40 => ~lastQuery.phase
    /\ lastQuery.op = "GetNumCommitmentsRequired"
          /\ lastQuery.llmqParams = ExampleParams /\ lastQuery.nHeight = 40
          => lastQuery.count = 0

\* the last height of the window of the example was asked and is in the mining phase
C22_Witness ==
    /\ lastQuery.op = "IsMiningPhase" /\ lastQuery.llmqParams = ExampleParams
    /\ lastQuery.nHeight = 34 /\ lastQuery.phase

\* C23: GetMinedCommitmentsUntilBlock returns the committee blocks of the entries
\* of its type in the flat reverse index mined at or below the height of pindex,
\* the most recently mined first and none skipped, cut after maxCount entries
C23_MostRecent ==
    lastQuery.op = "GetMinedCommitmentsUntilBlock" =>
        LET t == lastQuery.llmqType
            pindex == lastQuery.pindex
            heights == {h \in 0 .. pindex.height : DbExists(ih, BuildInversedHeightKey(t, h))}
            n == IF lastQuery.maxCount < Cardinality(heights) THEN lastQuery.maxCount
                 ELSE Cardinality(heights)
        IN  /\ Len(lastQuery.ret) = n
            /\ \A k \in 1 .. n : \E h \in heights :
                   /\ Cardinality({g \in heights : g > h}) = k - 1
                   /\ lastQuery.ret[k] = GetAncestor(pindex, DbRead(ih, BuildInversedHeightKey(t, h)))

\* a query below the tip was cut at maxCount, with entries of the type above
\* pindex, entries of another type and entries of the per-index namespace in the store
C23_Witness ==
    /\ lastQuery.op = "GetMinedCommitmentsUntilBlock" /\ lastQuery.llmqType = LLMQ_T1
    /\ lastQuery.maxCount = 1 /\ Len(lastQuery.ret) = 1
    /\ \E p \in ih : p[1][1] = LLMQ_T1 /\ p[1] # BuildInversedHeightKey(LLMQ_T1, lastQuery.pindex.height)
                       /\ BytesLess(SerializeKey(p[1]),
                                    SerializeKey(BuildInversedHeightKey(LLMQ_T1, lastQuery.pindex.height)))
    /\ Cardinality({p \in ih : p[1][1] = LLMQ_T1}) = 2
    /\ \E p \in ih : p[1][1] = LLMQ_T2
    /\ ihi # {}

\* C24: the key of a mined height decodes to that height, and the key of a
\* greater height comes first, in the byte order of the database and as a number
C24_InvertedKey ==
    lastQuery.op = "BuildInversedHeightKey" =>
        LET h == lastQuery.nMinedHeight
            key == lastQuery.key
        IN  /\ Sub32(UINT32_MAX, be32toh(key[2])) = Uint32(h)
            /\ \A g \in KeyHeights :
                   LET other == BuildInversedHeightKey(lastQuery.llmqType, g)
                   IN  /\ g > h <=> BytesLess(SerializeKey(other), SerializeKey(key))
                       /\ g > h <=> Less32(be32toh(other[2]), be32toh(key[2]))

\* the key of a height past a byte boundary was built
C24_Witness ==
    lastQuery.op = "BuildInversedHeightKey" /\ lastQuery.nMinedHeight = 65536

\* the per-index entries of a type mined at or below the height of pindex, as
\* <<sub-index, mined height>>, and the number of more recent entries of the
\* same sub-index
IndexedEntries(t, pindex) ==
    {e \in (0 .. GetLLMQParams(t).signingActiveQuorumCount - 1) \X (0 .. pindex.height) :
        DbExists(ihi, BuildInversedHeightKeyIndexed(t, e[2], e[1]))}
Offset(E, e) == Cardinality({f \in E : f[1] = e[1] /\ f[2] > e[2]})

InIndexedLoop == lastQuery.op = "GetMinedCommitmentsIndexedUntilBlock" /\ ~lastQuery.loop.done
IndexedDone == lastQuery.op = "GetMinedCommitmentsIndexedUntilBlock" /\ lastQuery.loop.done

\* the list the query is to return: the entries by offset, then by sub-index,
\* cut after maxCount
IndexedCorrect ==
    LET t == lastQuery.llmqType
        pindex == lastQuery.pindex
        ret == lastQuery.loop.ret
        E == IndexedEntries(t, pindex)
        n == IF lastQuery.maxCount < Cardinality(E) THEN lastQuery.maxCount ELSE Cardinality(E)
        Before(e) == {f \in E : \/ Offset(E, f) < Offset(E, e)
                                \/ Offset(E, f) = Offset(E, e) /\ f[1] < e[1]}
    IN  /\ Len(ret) = n
        /\ \A k \in 1 .. n : \E e \in E :
               /\ Cardinality(Before(e)) = k - 1
               /\ ret[k] = GetAncestor(pindex, DbRead(ihi, BuildInversedHeightKeyIndexed(t, e[2], e[1])))

\* every test of the loop either leaves it or lengthens the result, which
\* never holds more than maxCount entries: the loop is left after at most
\* maxCount + 1 tests
IndexedProgress ==
    InIndexedLoop =>
        /\ lastQuery'.op = lastQuery.op
        /\ Len(lastQuery'.loop.ret) <= lastQuery.maxCount
        /\ lastQuery'.loop.done \/ Len(lastQuery'.loop.ret) > Len(lastQuery.loop.ret)

\* C28: GetMinedCommitmentsIndexedUntilBlock, once entered, returns, and what it
\* returns is at most maxCount entries: for offset 0, 1, 2, ... and inside an
\* offset for ascending sub-index, the committee block of the entry of the
\* sub-index with that many more recent entries at or below the height of pindex
C28_Indexed == [](IndexedDone => IndexedCorrect) /\ [][IndexedProgress]_vars

\* the query returned two entries of one sub-index after visiting a second offset
C28_Witness ==
    /\ IndexedDone /\ Len(lastQuery.loop.ret) = 2 /\ lastQuery.loop.cycle = 2
    /\ lastQuery.pindex # chainTip

\* the reverse-index entry of a primary record: in the flat index when rotation
\* is disabled for the commitment, in the per-index one when it is enabled
EntryOf(p) ==
    LET qc == p[2][1]
        nMinedHeight == p[2][2].height
    IN  IF IsQuorumRotationEnabled(GetLLMQParams(qc.llmqType), qc.quorumHash)
        THEN [indexed |-> TRUE,
              entry |-> <<BuildInversedHeightKeyIndexed(qc.llmqType, nMinedHeight, qc.quorumIndex),
                          qc.quorumHash.height>>]
        ELSE [indexed |-> FALSE,
              entry |-> <<BuildInversedHeightKey(qc.llmqType, nMinedHeight), qc.quorumHash.height>>]

\* C29: the primary records and the reverse-index entries correspond one to one:
\* every record has its entry at its mined height in the index its rotation
\* state selects and no entry of its slot in the other, different records have
\* different entries, and every entry is the entry of a record
C29_OneToOne ==
    /\ \A p \in mc :
          /\ EntryOf(p).entry \in (IF EntryOf(p).indexed THEN ihi ELSE ih)
          /\ \A q \in mc : EntryOf(q) = EntryOf(p) => q = p
    /\ \A e \in ih : \E p \in mc : EntryOf(p) = [indexed |-> FALSE, entry |-> e]
    /\ \A e \in ihi : \E p \in mc : EntryOf(p) = [indexed |-> TRUE, entry |-> e]

-----------------------------------------------------------------------------
(* The two locks: cs_main and minableCommitmentsCs *)

\* One step of a routine: k is what the step does ("lock" and "unlock" of the
\* mutex a, "call" of the routine a, "io" for a call of m_evoDb, "verify" for
\* CFinalCommitment::Verify, "map" for the work on the pool maps and the cache,
\* "plain" for anything else, "ret"), to holds the steps that can follow it
Ins(k, a, to) == [k |-> k, a |-> a, to |-> to]

ProcessMessageLocks ==
    << Ins("lock", "cs_main", {2}),                 \* WITH_LOCK(cs_main, ...
       Ins("plain", "", {3}),                       \* ... EraseObjectRequest)
       Ins("unlock", "cs_main", {4, 7}),            \* null commitment or unknown type: 4
       Ins("lock", "cs_main", {5}),                 \* WITH_LOCK(cs_main, ...
       Ins("plain", "", {6}),                       \* ... Misbehaving)
       Ins("unlock", "cs_main", {20}),
       Ins("lock", "cs_main", {8}),                 \* LOCK(cs_main)
       Ins("plain", "", {9, 10}),                   \* the checks of the committee block
       Ins("unlock", "cs_main", {20}),              \* return inside the scope
       Ins("call", "HasMinedCommitment", {11}),
       Ins("unlock", "cs_main", {12, 20}),          \* end of the scope, or already mined
       Ins("lock", "minableCommitmentsCs", {13}),
       Ins("map", "", {14}),
       Ins("unlock", "minableCommitmentsCs", {15, 20}),  \* end of the scope, or a better one held
       Ins("verify", "", {16, 19}),
       Ins("lock", "cs_main", {17}),                \* WITH_LOCK(cs_main, ...
       Ins("plain", "", {18}),                      \* ... Misbehaving)
       Ins("unlock", "cs_main", {20}),
       Ins("call", "AddMineableCommitment", {20}),
       Ins("ret", "", {}) >>

ProcessBlockLocks ==
    << Ins("plain", "", {2, 3}),                    \* fDIP0003Active
       Ins("io", "", {11}),                         \* Write(DB_BEST_BLOCK_UPGRADE)
       Ins("plain", "", {4, 11}),                   \* GetCommitmentsFromBlock
       Ins("plain", "", {5, 7}),                    \* for params : GetEnabledQuorumParams
       Ins("call", "GetNumCommitmentsRequired", {6}),
       Ins("plain", "", {4, 11}),                   \* bad-qc-not-allowed, bad-qc-missing
       Ins("plain", "", {8, 10}),                   \* for p : qcs
       Ins("call", "ProcessCommitment", {9}),
       Ins("plain", "", {7, 11}),
       Ins("io", "", {11}),                         \* Write(DB_BEST_BLOCK_UPGRADE)
       Ins("ret", "", {}) >>

ProcessCommitmentLocks ==
    << Ins("plain", "", {2, 11}),                   \* bad-qc-block, null commitment
       Ins("call", "HasMinedCommitment", {3, 11}),  \* bad-qc-dup
       Ins("plain", "", {4, 11}),                   \* bad-qc-height
       Ins("verify", "", {5, 11}),                  \* bad-qc-invalid
       Ins("plain", "", {6, 11}),                   \* fJustCheck
       Ins("io", "", {7}),                          \* Write(DB_MINED_COMMITMENT)
       Ins("io", "", {8}),                          \* Write(BuildInversedHeightKey...)
       Ins("lock", "minableCommitmentsCs", {9}),
       Ins("map", "", {10}),
       Ins("unlock", "minableCommitmentsCs", {11}),
       Ins("ret", "", {}) >>

UndoBlockLocks ==
    << Ins("plain", "", {2, 10}),                   \* GetCommitmentsFromBlock
       Ins("plain", "", {2, 3, 9}),                 \* for p : qcs, null commitments skipped
       Ins("io", "", {4}),                          \* Erase(DB_MINED_COMMITMENT)
       Ins("io", "", {5}),                          \* Erase(BuildInversedHeightKey...)
       Ins("lock", "minableCommitmentsCs", {6}),
       Ins("map", "", {7}),
       Ins("unlock", "minableCommitmentsCs", {8}),
       Ins("call", "AddMineableCommitment", {2}),
       Ins("io", "", {10}),                         \* Write(DB_BEST_BLOCK_UPGRADE)
       Ins("ret", "", {}) >>

GetNumCommitmentsRequiredLocks ==
    << Ins("plain", "", {2, 4}),                    \* IsMiningPhase
       Ins("plain", "", {2, 3, 4}),                 \* for quorumIndex: GetQuorumBlockHash
       Ins("call", "HasMinedCommitment", {2, 4}),
       Ins("ret", "", {}) >>

HasMinedCommitmentLocks_OneLock ==
    << Ins("lock", "minableCommitmentsCs", {2}),
       Ins("map", "", {3, 4}),
       Ins("unlock", "minableCommitmentsCs", {9}),
       Ins("plain", "", {5}),
       Ins("io", "", {6}),
       Ins("plain", "", {7}),
       Ins("map", "", {8}),
       Ins("unlock", "minableCommitmentsCs", {9}),
       Ins("ret", "", {}) >>

HasMinedCommitmentLocks ==
    << Ins("lock", "minableCommitmentsCs", {2}),
       Ins("map", "", {3, 4}),                      \* the cache holds an answer: 3
       Ins("unlock", "minableCommitmentsCs", {9}),
       Ins("unlock", "minableCommitmentsCs", {5}),
       Ins("io", "", {6}),                          \* m_evoDb.Exists
       Ins("lock", "minableCommitmentsCs", {7}),
       Ins("map", "", {8}),
       Ins("unlock", "minableCommitmentsCs", {9}),
       Ins("ret", "", {}) >>

AddMineableCommitmentLocks ==
    << Ins("lock", "minableCommitmentsCs", {2}),
       Ins("map", "", {3}),
       Ins("unlock", "minableCommitmentsCs", {4, 5}),
       Ins("plain", "", {5}),                       \* connman.RelayInv
       Ins("ret", "", {}) >>

GetMineableCommitmentsLocks ==
    << Ins("call", "GetNumCommitmentsRequired", {2, 8}),
       Ins("plain", "", {3, 8}),                    \* for quorumIndex
       Ins("plain", "", {4, 8}),                    \* GetQuorumBlockHash
       Ins("call", "HasMinedCommitment", {2, 5}),   \* already mined: continue
       Ins("lock", "minableCommitmentsCs", {6}),
       Ins("map", "", {7}),
       Ins("unlock", "minableCommitmentsCs", {2}),  \* end of the loop body
       Ins("ret", "", {}) >>

\* a caller of a routine that asserts cs_main: it holds cs_main around the call
Caller(f) ==
    << Ins("lock", "cs_main", {2}), Ins("call", f, {3}),
       Ins("unlock", "cs_main", {4}), Ins("ret", "", {}) >>

Code(f) ==
    CASE f = "ProcessMessage" -> ProcessMessageLocks
      [] f = "ProcessBlock" -> ProcessBlockLocks
      [] f = "ProcessCommitment" -> ProcessCommitmentLocks
      [] f = "UndoBlock" -> UndoBlockLocks
      [] f = "GetNumCommitmentsRequired" -> GetNumCommitmentsRequiredLocks
      [] f = "HasMinedCommitment" -> HasMinedCommitmentLocks
      [] f = "AddMineableCommitment" -> AddMineableCommitmentLocks
      [] f = "GetMineableCommitments" -> GetMineableCommitmentsLocks
      [] f = "ConnectBlock" -> Caller("ProcessBlock")
      [] f = "DisconnectBlock" -> Caller("UndoBlock")
      [] f = "CreateNewBlock" -> Caller("GetMineableCommitments")

\* what the threads of the node call
Entries ==
    {"ProcessMessage", "HasMinedCommitment", "AddMineableCommitment",
     "ConnectBlock", "DisconnectBlock", "CreateNewBlock"}

\* a thread outside every call: no frame, no lock
Outside == [op |-> "idle", stack |-> <<>>, held |-> <<>>]

InitLock ==
    /\ chainTip = Genesis
    /\ mc = {} /\ ih = {} /\ ihi = {} /\ bbu = NullHash
    /\ cache = {} /\ byQuorum = {} /\ minable = {}
    /\ threads = [t \in Threads |-> Outside] /\ lastQuery = NoQuery

Frame(t) == threads[t].stack[Len(threads[t].stack)]

\* the step thread t is about to take
Instr(t) == Code(Frame(t)[1])[Frame(t)[2]]

Running(t) == threads[t].stack # <<>>

Holds(t, m) == \E i \in 1 .. Len(threads[t].held) : threads[t].held[i] = m

\* cs_main is a recursive mutex, minableCommitmentsCs is not
Free(t, m) ==
    \A u \in Threads : Holds(u, m) => (u = t /\ m = "cs_main")

Goto(t, pc) == [threads[t].stack EXCEPT ![Len(threads[t].stack)] = <<Frame(t)[1], pc>>]

Enter(t, f) ==
    /\ ~Running(t)
    /\ threads' = [threads EXCEPT ![t] = [op |-> f, stack |-> <<<<f, 1>>>>, held |-> <<>>]]
    /\ UNCHANGED <<chainTip, mc, ih, ihi, bbu, cache, byQuorum, minable, lastQuery>>

Acquire(t) ==
    /\ Running(t) /\ Instr(t).k = "lock" /\ Free(t, Instr(t).a)
    /\ \E pc \in Instr(t).to :
          threads' = [threads EXCEPT ![t].stack = Goto(t, pc),
                                     ![t].held = Append(@, Instr(t).a)]
    /\ UNCHANGED <<chainTip, mc, ih, ihi, bbu, cache, byQuorum, minable, lastQuery>>

Release(t) ==
    /\ Running(t) /\ Instr(t).k = "unlock"
    /\ threads[t].held # <<>> /\ threads[t].held[Len(threads[t].held)] = Instr(t).a
    /\ \E pc \in Instr(t).to :
          threads' = [threads EXCEPT ![t].stack = Goto(t, pc),
                                     ![t].held = SubSeq(@, 1, Len(@) - 1)]
    /\ UNCHANGED <<chainTip, mc, ih, ihi, bbu, cache, byQuorum, minable, lastQuery>>

Work(t) ==
    /\ Running(t) /\ Instr(t).k \in {"plain", "map", "io", "verify"}
    /\ \E pc \in Instr(t).to : threads' = [threads EXCEPT ![t].stack = Goto(t, pc)]
    /\ UNCHANGED <<chainTip, mc, ih, ihi, bbu, cache, byQuorum, minable, lastQuery>>

Call(t) ==
    /\ Running(t) /\ Instr(t).k = "call"
    /\ threads' = [threads EXCEPT ![t].stack = Append(@, <<Instr(t).a, 1>>)]
    /\ UNCHANGED <<chainTip, mc, ih, ihi, bbu, cache, byQuorum, minable, lastQuery>>

Return(t) ==
    /\ Running(t) /\ Instr(t).k = "ret"
    /\ LET rest == SubSeq(threads[t].stack, 1, Len(threads[t].stack) - 1)
       IN  IF rest = <<>> THEN threads' = [threads EXCEPT ![t] = Outside]
           ELSE LET caller == rest[Len(rest)]
                IN  \E pc \in Code(caller[1])[caller[2]].to :
                       threads' = [threads EXCEPT ![t].stack =
                                      [rest EXCEPT ![Len(rest)] = <<caller[1], pc>>]]
    /\ UNCHANGED <<chainTip, mc, ih, ihi, bbu, cache, byQuorum, minable, lastQuery>>

NextLock ==
    \/ \E t \in Threads, f \in Entries : Enter(t, f)
    \/ \E t \in Threads : Acquire(t)
    \/ \E t \in Threads : Release(t)
    \/ \E t \in Threads : Work(t)
    \/ \E t \in Threads : Call(t)
    \/ \E t \in Threads : Return(t)

SpecLock == InitLock /\ [][NextLock]_vars

-----------------------------------------------------------------------------
(* Properties of the calls that run beside the chain *)

\* a thread has finished ProcessMessage
Handled(t) == threads[t].op = "ProcessMessage" /\ threads[t].pc = "done"

\* C25: once two threads have finished ProcessMessage for valid commitments of
\* one unconfirmed slot with different numbers of signers, the pool's candidate
\* of the slot is the one with more signers
C25_GreaterWins ==
    \A a, b \in Threads :
        (/\ Handled(a) /\ Handled(b)
         /\ Slot(threads[a].qc) = Slot(threads[b].qc)
         /\ CountSigners(threads[a].qc) > CountSigners(threads[b].qc)
         /\ ~DbExists(mc, Slot(threads[a].qc)))
        => Best(Cur, Slot(threads[a].qc)) = threads[a].qc

\* C27: an entry of the existence cache tells whether the store holds a
\* confirmed record of its slot
C27_CacheCoherent == \A e \in cache : e[2] = DbExists(mc, e[1])

\* C30: no slot has a confirmed record in the store and a candidate in the pool
C30_Disjoint == \A e \in byQuorum : ~DbExists(mc, e[1])

\* thread t waits for a mutex that thread u holds
Waits(t, u) ==
    /\ Running(t) /\ Instr(t).k = "lock" /\ ~Free(t, Instr(t).a)
    /\ Holds(u, Instr(t).a)

\* some threads wait for one another
Deadlocked ==
    \E D \in SUBSET Threads : D # {} /\ \A t \in D : \E u \in D : Waits(t, u)

\* C26: a thread that holds minableCommitmentsCs is not about to acquire
\* cs_main, to verify a commitment or to read or write the store, and no
\* threads wait for one another on the two locks
C26_PoolLockScoped ==
    /\ \A t \in Threads :
          (Running(t) /\ Holds(t, "minableCommitmentsCs")) =>
              /\ Instr(t).k \notin {"io", "verify", "call"}
              /\ ~(Instr(t).k = "lock" /\ Instr(t).a = "cs_main")
    /\ ~Deadlocked

\* a thread that holds cs_main waits for the pool lock, which a thread without
\* cs_main holds
C26_Witness ==
    \E a, b \in Threads :
        /\ Running(a) /\ Holds(a, "minableCommitmentsCs") /\ ~Holds(a, "cs_main")
        /\ Holds(b, "cs_main") /\ Waits(b, a)

\* every slot entry of minableCommitmentsByQuorum names a content hash that
\* minableCommitments holds
SlotsResolve == \A e \in byQuorum : DbExists(minable, e[2])

\* every commitment of minableCommitments is named by exactly one slot entry
NoOrphan == \A c \in minable : Cardinality({e \in byQuorum : e[2] = c[1]}) = 1

\* C31: the two pool maps agree: every slot entry names a commitment the pool
\* holds, and every commitment the pool holds is the candidate of exactly one
\* slot, so HasMineableCommitment and GetMineableCommitmentByHash report no
\* superseded or evicted commitment
C31_MapsAgree ==
    /\ SlotsResolve
    /\ NoOrphan
    /\ \A c \in minable :
          (HasMineableCommitment(Cur, c[1]) \/ GetMineableCommitmentByHash(Cur, c[1]).found)
              => \E e \in byQuorum : e[2] = c[1] /\ Best(Cur, e[1]) = c[2]

====
